---- MODULE Spec2Model ----
(***************************************************************************)
(* Model of the recognition side of desktop-ai-robot:                      *)
(*   python/asr/sentence_manager.py  SentenceManager                       *)
(*   python/asr/result_merger.py     merge_results                         *)
(*   python/asr/server.py            handle_audio, check_silence_periodically *)
(*                                                                         *)
(* A Python str is a sequence of one-character strings.  CJK characters    *)
(* are written with ASCII names: "ni" "hao" "da" "kai" are ideographs,     *)
(* "cjk_period" is U+3002, "cjk_excl" is U+FF01, "cjk_quest" is U+FF1F.    *)
(* Time is counted in whole seconds (time.time() rounded down).            *)
(***************************************************************************)
EXTENDS Integers, Sequences, FiniteSets, TLC

VARIABLES
    \* ---- handle_audio's state (server.py:31-39) ----
    use_bilingual,          \* get_models()[2]; en_model is loaded iff it is TRUE
    current_cn_recognizer,  \* "None" | "fresh" | "fed"
    current_en_recognizer,  \* "None" | "fresh" | "fed"
    current_sentence,       \* sentence_manager.current_sentence
    last_update_time,       \* sentence_manager.last_update_time
    silence_check_task,     \* 0 (None) or the index of the task in taskState
    \* ---- the coroutines' positions ----
    pc,                     \* where handle_audio stands
    text,                   \* local: the text of the result/final event
    complete_sentence,      \* local: what add_text returned (None or a str)
    taskState,              \* one entry per check_silence_periodically task
    loopOwner,              \* the coroutine the event loop is running: "none", "ingest" or a task index
    \* ---- environment ----
    now,                    \* time.time()
    conn,                   \* "open" | "closed": the websocket
    queued,                 \* a frame the library buffered before the close
    \* ---- history (not read by the program) ----
    nMsgs,                  \* frames received so far
    lastMsg,                \* kind of the frame being handled
    evSent,                 \* events handle_audio sent while handling lastMsg
    emitted,                \* utterances taken out of the accumulator, in order
    dispatched,             \* arguments of create_task(call_deepseek_api_stream(..)), in order
    bufFrags,               \* numbers of the frames whose text is in current_sentence
    droppedFrags,           \* numbers of the frames whose text was finalized too short
    smLast,                 \* the last SentenceManager call: its arguments, pre-state and result
    \* ---- merge_results on its own ----
    mIn,                    \* <<cn_result, en_result>>
    mOut,                   \* what merge_results returned for mIn, or "pending"
    \* ---- call_deepseek_api_stream on its own (ai_client.py) ----
    deepseek_token,         \* get_deepseek_token(): None, '' or a token
    websocket_closed,       \* websocket.closed
    cpc,                    \* where call_deepseek_api_stream stands
    httpOutcome,            \* what the request came to, "none" before it
    respLines,              \* what response.aiter_lines() is going to yield
    lineNo,                 \* how many of respLines have been read
    buffer,                 \* local: the accumulated text
    tried,                  \* sends attempted, in order: the event and whether it went out
    lineLog,                \* per line read: buffer before and after, sends attempted for it
    requestOpened,          \* client.stream('POST', ..) was entered
    chatRaised,             \* an exception left call_deepseek_api_stream
    \* ---- text_to_speech_edge_stream on its own (tts/synthesizer.py) ----
    tts_text,               \* the text to synthesize
    tts_closed,             \* the websocket of the request is closed
    ffmpeg_installed,       \* subprocess.Popen(['ffmpeg', ..]) finds the program
    tpc,                    \* where text_to_speech_edge_stream stands
    chunksIn,               \* what communicate.stream() has yielded so far
    buffer_size,            \* local: bytes held in mp3_chunks
    mp3_chunks,             \* local: the chunks held, by their places in chunksIn
    total_size,             \* local: PCM bytes sent
    ttsSent,                \* what went out on the websocket, in order
    ttsOutcome,             \* how the call ended, "running" before
    decoded,                \* history: the blocks ffmpeg was run on and what it wrote
    \* ---- handle_tts_request (tts/server.py) ----
    spc,                    \* where handle_tts_request stands
    nReqs,                  \* messages received on the connection so far
    reqMsg,                 \* the message being handled
    served,                 \* history: how the earlier messages ended, in order
    \* ---- the handling of one audio frame on its own (server.py:55-141) ----
    frameIn,                \* use_bilingual, what the recognizers did, the buffer
    frameOut                \* the events sent and the buffer after, or "pending"

vars == <<use_bilingual, current_cn_recognizer, current_en_recognizer,
          current_sentence, last_update_time, silence_check_task, pc, text,
          complete_sentence, taskState, loopOwner, now, conn, queued, nMsgs,
          lastMsg, evSent, emitted, dispatched, bufFrags, droppedFrags, smLast,
          mIn, mOut, deepseek_token, websocket_closed, cpc, httpOutcome,
          respLines, lineNo, buffer, tried, lineLog, requestOpened, chatRaised,
          tts_text, tts_closed, ffmpeg_installed, tpc, chunksIn, buffer_size, mp3_chunks,
          total_size, ttsSent, ttsOutcome, decoded, spc, nReqs, reqMsg,
          served, frameIn, frameOut>>

chatVars == <<deepseek_token, websocket_closed, cpc, httpOutcome, respLines,
              lineNo, buffer, tried, lineLog, requestOpened, chatRaised>>

ttsVars == <<tts_text, tts_closed, ffmpeg_installed, tpc, chunksIn,
             buffer_size, mp3_chunks, total_size, ttsSent, ttsOutcome, decoded>>

ttsVarsButSent == <<tts_text, tts_closed, ffmpeg_installed, tpc, chunksIn,
                    buffer_size, mp3_chunks, total_size, ttsOutcome, decoded>>

ttsVarsButClosed == <<tts_text, ffmpeg_installed, tpc, chunksIn, buffer_size, mp3_chunks,
                      total_size, ttsSent, ttsOutcome, decoded>>

srvVars == <<spc, nReqs, reqMsg, served>>

frameVars == <<frameIn, frameOut>>

\* The variables of the parts that are modelled on their own.
aside == <<mIn, mOut, chatVars, ttsVars, srvVars, frameVars>>

sessionVars == <<use_bilingual, current_cn_recognizer, current_en_recognizer,
          current_sentence, last_update_time, silence_check_task, pc, text,
          complete_sentence, taskState, loopOwner, now, conn, queued, nMsgs,
          lastMsg, evSent, emitted, dispatched, bufFrags, droppedFrags, smLast>>

----------------------------------------------------------------------------
\* Bounds of the model.

\* Frames (audio or control) one connection receives.
MaxMsgs == 3
\* The clock stops here.
MaxTime == 3
\* Confidences are multiples of 1/MaxConf; MaxConf stands for 1.0.
MaxConf == 10

----------------------------------------------------------------------------
\* Python values.

\* None where a str is expected.
None == <<"<None>">>

\* A key that a dict does not have.
NoText == <<"<no key>">>
NoConf == -1

\* bool(x) for x a str or None.
Truthy(x) == x # None /\ x # NoText /\ x # <<>>

Whitespace == {" "}

Max(a, b) == IF a >= b THEN a ELSE b

\* str.lstrip / str.rstrip / str.strip
RECURSIVE LStrip(_)
LStrip(s) == IF s # <<>> /\ Head(s) \in Whitespace THEN LStrip(Tail(s)) ELSE s

RECURSIVE RStrip(_)
RStrip(s) ==
    IF s # <<>> /\ s[Len(s)] \in Whitespace
    THEN RStrip(SubSeq(s, 1, Len(s) - 1))
    ELSE s

Strip(s) == RStrip(LStrip(s))

\* len(s.split()): the number of maximal runs of non-whitespace.
SplitCount(s) ==
    Cardinality({i \in 1..Len(s) :
        /\ s[i] \notin Whitespace
        /\ (i = 1 \/ s[i - 1] \in Whitespace)})

\* str.lower on the characters the model uses.
LowerChar(c) ==
    CASE c = "C" -> "c"
      [] c = "D" -> "d"
      [] c = "G" -> "g"
      [] c = "E" -> "e"
      [] c = "T" -> "t"
      [] OTHER -> c

Lower(s) == [i \in 1..Len(s) |-> LowerChar(s[i])]

\* w in s, for str
Contains(s, w) ==
    \E i \in 1..(Len(s) - Len(w) + 1) : SubSeq(s, i, i + Len(w) - 1) = w

Letters == {"a", "b", "c", "d", "e", "f", "g", "l", "n", "o", "p", "r", "t",
            "u", "C", "D", "G", "E", "T", "ni", "hao", "da", "kai"}

\* str.isalpha
IsAlpha(s) == s # <<>> /\ \A i \in 1..Len(s) : s[i] \in Letters

----------------------------------------------------------------------------
\* python/common/config.py

ASR_SILENCE_TIMEOUT == 2

\* r'[。！？]' and r'[.!?]': each pattern is a character class.
ASR_SENTENCE_END_PATTERNS ==
    << {"cjk_period", "cjk_excl", "cjk_quest"}, {".", "!", "?"} >>

ASR_MIN_SENTENCE_LENGTH == 2

\* Variant: re.match, which looks at the start of the string only.
ReSearch_AtStart(pattern, s) == s # <<>> /\ s[1] \in pattern

\* re.search(pattern, s) for a character class.
ReSearch(pattern, s) == \E i \in 1..Len(s) : s[i] \in pattern

----------------------------------------------------------------------------
\* python/asr/sentence_manager.py
\* The operators take the manager's fields and return the new fields and
\* the method's result.

\* Variant: sentences of any length pass.
LongEnough_Any(sentence) == TRUE

\* len(sentence) >= ASR_MIN_SENTENCE_LENGTH
LongEnough(sentence) == Len(sentence) >= ASR_MIN_SENTENCE_LENGTH

\* Variant: a match returns the sentence and leaves the buffer as it is.
RECURSIVE ScanPatterns_KeepBuffer(_, _)
ScanPatterns_KeepBuffer(i, cs) ==
    IF i > Len(ASR_SENTENCE_END_PATTERNS)
    THEN [cs |-> cs, ret |-> None]
    ELSE IF ReSearch(ASR_SENTENCE_END_PATTERNS[i], cs)
         THEN LET sentence == Strip(cs) IN
              IF LongEnough(sentence)
              THEN [cs |-> cs, ret |-> sentence]
              ELSE ScanPatterns_KeepBuffer(i + 1, cs)
         ELSE ScanPatterns_KeepBuffer(i + 1, cs)

\* The loop over ASR_SENTENCE_END_PATTERNS of add_text, from pattern i on.
\* A match clears the buffer; a sentence that is too short is not returned
\* and the loop goes on over the cleared buffer.
RECURSIVE ScanPatterns(_, _)
ScanPatterns(i, cs) ==
    IF i > Len(ASR_SENTENCE_END_PATTERNS)
    THEN [cs |-> cs, ret |-> None]
    ELSE IF ReSearch(ASR_SENTENCE_END_PATTERNS[i], cs)
         THEN LET sentence == Strip(cs) IN
              IF LongEnough(sentence)
              THEN [cs |-> <<>>, ret |-> sentence]
              ELSE ScanPatterns(i + 1, <<>>)
         ELSE ScanPatterns(i + 1, cs)

\* SentenceManager.add_text(txt) at time t.
add_text(cs, lut, txt, t) ==
    IF ~Truthy(txt) \/ ~Truthy(Strip(txt))
    THEN [cs |-> cs, lut |-> lut, ret |-> None]
    ELSE LET joined == IF cs # <<>>
                       THEN cs \o <<" ">> \o Strip(txt)
                       ELSE Strip(txt)
             scan == ScanPatterns(1, joined)
         IN  [cs |-> scan.cs, lut |-> t, ret |-> scan.ret]

\* Variant: the timed-out buffer is returned and not cleared.
check_silence_timeout_no_clear(cs, lut, t) ==
    IF cs = <<>>
    THEN [cs |-> cs, lut |-> lut, ret |-> None]
    ELSE IF t - lut >= ASR_SILENCE_TIMEOUT
         THEN LET sentence == Strip(cs) IN
              [cs |-> cs, lut |-> lut,
               ret |-> IF LongEnough(sentence) THEN sentence ELSE None]
         ELSE [cs |-> cs, lut |-> lut, ret |-> None]

\* Variant: the silence is never long enough.
check_silence_timeout_never(cs, lut, t) ==
    [cs |-> cs, lut |-> lut, ret |-> None]

\* SentenceManager.check_silence_timeout() at time t.
check_silence_timeout(cs, lut, t) ==
    IF cs = <<>>
    THEN [cs |-> cs, lut |-> lut, ret |-> None]
    ELSE IF t - lut >= ASR_SILENCE_TIMEOUT
         THEN LET sentence == Strip(cs) IN
              [cs |-> <<>>, lut |-> lut,
               ret |-> IF LongEnough(sentence) THEN sentence ELSE None]
         ELSE [cs |-> cs, lut |-> lut, ret |-> None]

\* SentenceManager.reset() at time t.
reset(t) == [cs |-> <<>>, lut |-> t]

----------------------------------------------------------------------------
\* python/asr/result_merger.py
\* A recognition result is a dict with the optional keys 'text' and
\* 'confidence': [text |-> a str or NoText, confidence |-> 0..MaxConf or NoConf].

EmptyDict == [text |-> NoText, confidence |-> NoConf]

\* d.get('text', '')
GetText(d) == IF d.text = NoText THEN <<>> ELSE d.text

\* Variant: the text taken without .strip().
TrimmedText_NoStrip(d) == GetText(d)

\* d.get('text', '').strip()
TrimmedText(d) == Strip(GetText(d))

\* d.get('confidence', 0) if 'confidence' in d else 0
GetConfidence(d) == IF d.confidence = NoConf THEN 0 ELSE d.confidence

common_english_words ==
    { <<"c","u","r","l">>, <<"g","e","t">>, <<"p","o","s","t">>,
      <<"h","t","t","p">>, <<"a","p","i">>, <<"j","s","o","n">>,
      <<"c","o","d","e">>, <<"f","i","l","e">>, <<"d","i","r">>,
      <<"c","d">>, <<"l","s">>, <<"p","w","d">> }

\* any(word in en_text.lower() for word in common_english_words)
has_english_word(en_text) ==
    \E word \in common_english_words : Contains(Lower(en_text), word)

\* Variant: the factor 0.7 left out.
ClearlyAbove_NoFactor(a, b) == a > b

\* en_confidence > cn_confidence * 0.7, on confidences in the same unit
ClearlyAbove(a, b) == 10 * a > 7 * b

\* Variant: the isalpha() test left out.
ShortWord_NoAlpha(en_text) == SplitCount(en_text) <= 2

\* len(en_text.split()) <= 2 and en_text.isalpha()
ShortWord(en_text) == SplitCount(en_text) <= 2 /\ IsAlpha(en_text)

\* Variant: on equal confidences the English text is taken.
MergedDict_StrictTie(cn_text, en_text, cn_confidence, en_confidence) ==
    LET merged_text ==
            IF ShortWord(en_text)
            THEN (IF cn_text # <<>> THEN cn_text \o <<" ">> \o en_text ELSE en_text)
            ELSE (IF cn_confidence > en_confidence THEN cn_text ELSE en_text)
    IN  [text |-> Strip(merged_text),
         confidence |-> Max(cn_confidence, en_confidence)]

\* The dict built when the confidences are close (result_merger.py:46-57).
MergedDict(cn_text, en_text, cn_confidence, en_confidence) ==
    LET merged_text ==
            IF ShortWord(en_text)
            THEN (IF cn_text # <<>> THEN cn_text \o <<" ">> \o en_text ELSE en_text)
            ELSE (IF cn_confidence >= en_confidence THEN cn_text ELSE en_text)
    IN  [text |-> Strip(merged_text),
         confidence |-> Max(cn_confidence, en_confidence)]

\* Variant: the Chinese-wins test made before the English-word test.
merge_results_cn_first(cn_result, en_result) ==
    LET cn_text == TrimmedText(cn_result)
        en_text == TrimmedText(en_result)
        cn_confidence == GetConfidence(cn_result)
        en_confidence == GetConfidence(en_result)
    IN  IF cn_text = <<>> /\ en_text = <<>>
        THEN [obj |-> "None", dict |-> EmptyDict]
        ELSE IF cn_text = <<>>
        THEN [obj |-> "en_result", dict |-> en_result]
        ELSE IF en_text = <<>>
        THEN [obj |-> "cn_result", dict |-> cn_result]
        ELSE IF ClearlyAbove(cn_confidence, en_confidence)
        THEN [obj |-> "cn_result", dict |-> cn_result]
        ELSE IF has_english_word(en_text) /\ ClearlyAbove(en_confidence, cn_confidence)
        THEN [obj |-> "en_result", dict |-> en_result]
        ELSE [obj |-> "new",
              dict |-> MergedDict(cn_text, en_text, cn_confidence, en_confidence)]

\* merge_results(cn_result, en_result).  obj says which object is returned:
\* an argument itself, a new dict, or None.
merge_results(cn_result, en_result) ==
    LET cn_text == TrimmedText(cn_result)
        en_text == TrimmedText(en_result)
        cn_confidence == GetConfidence(cn_result)
        en_confidence == GetConfidence(en_result)
    IN  IF cn_text = <<>> /\ en_text = <<>>
        THEN [obj |-> "None", dict |-> EmptyDict]
        ELSE IF cn_text = <<>>
        THEN [obj |-> "en_result", dict |-> en_result]
        ELSE IF en_text = <<>>
        THEN [obj |-> "cn_result", dict |-> cn_result]
        ELSE IF has_english_word(en_text) /\ ClearlyAbove(en_confidence, cn_confidence)
        THEN [obj |-> "en_result", dict |-> en_result]
        ELSE IF ClearlyAbove(cn_confidence, en_confidence)
        THEN [obj |-> "cn_result", dict |-> cn_result]
        ELSE [obj |-> "new",
              dict |-> MergedDict(cn_text, en_text, cn_confidence, en_confidence)]

----------------------------------------------------------------------------
\* The record of a SentenceManager call: the method, its argument, the
\* buffer and now - last_update_time before it, the buffer right after it,
\* its result, and whether the call before it was a check_silence_timeout
\* that found the timeout elapsed.
SmCall(op, arg, pre, elapsed, post, ret, afterTimeout) ==
    [op |-> op, arg |-> arg, pre |-> pre, elapsed |-> elapsed, post |-> post,
     ret |-> ret, afterTimeout |-> afterTimeout]

\* The connection as handle_audio finds it (server.py:31-39): no
\* recognizer, an empty SentenceManager built at time 0, no silence task.

SessionInit ==
    /\ current_cn_recognizer = "None"
    /\ current_en_recognizer = "None"
    /\ current_sentence = <<>>
    /\ last_update_time = 0
    /\ silence_check_task = 0
    /\ pc = "recv"
    /\ text = None
    /\ complete_sentence = None
    /\ taskState = <<>>
    /\ loopOwner = "none"
    /\ now = 0
    /\ conn = "open"
    /\ queued = FALSE
    /\ nMsgs = 0
    /\ lastMsg = "none"
    /\ evSent = <<>>
    /\ emitted = <<>>
    /\ dispatched = <<>>
    /\ bufFrags = {}
    /\ droppedFrags = {}
    /\ smLast = SmCall("init", None, <<>>, 0, <<>>, None, FALSE)

MergePending == [obj |-> "pending", dict |-> EmptyDict]

\* text_to_speech_edge_stream(text, voice, websocket, emotion) has just been
\* called.
TtsInit(txt, ffmpeg) ==
    /\ tts_text = txt
    /\ tts_closed = FALSE
    /\ ffmpeg_installed = ffmpeg
    /\ tpc = "begin"
    /\ chunksIn = <<>>
    /\ buffer_size = 0
    /\ mp3_chunks = <<>>
    /\ total_size = 0
    /\ ttsSent = <<>>
    /\ ttsOutcome = "running"
    /\ decoded = <<>>

\* handle_tts_request(websocket) has just been called: no message yet.
NoMsg == [type |-> "<none>", text |-> <<>>]

SrvInit ==
    /\ spc = "recv"
    /\ nReqs = 0
    /\ reqMsg = NoMsg
    /\ served = <<>>

\* No audio frame is being handled.
FramePending == [events |-> <<>>, cs |-> <<>>, dispatch |-> <<"<pending>">>]

FrameInit ==
    /\ frameIn = [bilingual |-> FALSE, cs |-> <<>>]
    /\ frameOut = FramePending

\* call_deepseek_api_stream(message, websocket) has just been called, with
\* the token tok.
ChatInit(tok) ==
    /\ deepseek_token = tok
    /\ websocket_closed = FALSE
    /\ cpc = "begin"
    /\ httpOutcome = "none"
    /\ respLines = <<>>
    /\ lineNo = 0
    /\ buffer = <<>>
    /\ tried = <<>>
    /\ lineLog = <<>>
    /\ requestOpened = FALSE
    /\ chatRaised = FALSE

----------------------------------------------------------------------------
\* python/asr/server.py: one connection served by handle_audio.
\*
\* asyncio runs one coroutine at a time and switches only at an await.  Each
\* action below is a stretch of code between two awaits; loopOwner names the
\* coroutine that is inside a stretch made of several actions.

\* Variant: a scheduler that switches coroutines anywhere (threads).
LoopFree_Preemptive == TRUE

\* The event loop can resume a coroutine that waits at an await.
LoopFree == loopOwner = "none"

\* What the recognizers can say (opaque): the texts of Result()/FinalResult()
\* and of PartialResult().  Vosk's result has no top-level 'confidence'.
SessTexts == { <<>>, <<" ">>, <<"a">>, <<".">>, <<"a", "cjk_period">> }

PartialTexts == { <<>>, <<"a">> }

\* AcceptWaveform(message) on one recognizer, then Result() or PartialResult().
DecOuts ==
    { [final |-> TRUE, result |-> [text |-> t, confidence |-> NoConf],
       partial |-> None] : t \in SessTexts }
    \cup
    { [final |-> FALSE, result |-> EmptyDict, partial |-> p] : p \in PartialTexts }

\* The recognizer that does not run.
NoOut == [final |-> FALSE, result |-> EmptyDict, partial |-> None]

\* Variant: only the Chinese partial is ever shown.
AudioOutcome_PrimaryOnly(bilingual, cn, en) ==
    IF bilingual
    THEN IF cn.final \/ en.final
         THEN LET merged == merge_results(cn.result, en.result) IN
              IF merged.obj # "None" /\ Truthy(merged.dict.text)
              THEN [kind |-> "result", text |-> merged.dict.text]
              ELSE [kind |-> "nothing", text |-> None]
         ELSE LET partial_text == cn.partial IN
              IF Truthy(partial_text)
              THEN [kind |-> "partial", text |-> partial_text]
              ELSE [kind |-> "nothing", text |-> None]
    ELSE IF cn.final
         THEN IF Truthy(cn.result.text)
              THEN [kind |-> "result", text |-> cn.result.text]
              ELSE [kind |-> "nothing", text |-> None]
         ELSE IF Truthy(cn.partial)
              THEN [kind |-> "partial", text |-> cn.partial]
              ELSE [kind |-> "nothing", text |-> None]

\* server.py:66-141: what an audio frame leads to, from the two recognizers'
\* outputs: a text for add_text and a 'result' event, a 'partial' event, or
\* nothing.
AudioOutcome(bilingual, cn, en) ==
    IF bilingual
    THEN IF cn.final \/ en.final
         THEN LET merged == merge_results(cn.result, en.result) IN
              IF merged.obj # "None" /\ Truthy(merged.dict.text)
              THEN [kind |-> "result", text |-> merged.dict.text]
              ELSE [kind |-> "nothing", text |-> None]
         ELSE LET partial_text == IF Truthy(cn.partial) THEN cn.partial ELSE en.partial IN
              IF Truthy(partial_text)
              THEN [kind |-> "partial", text |-> partial_text]
              ELSE [kind |-> "nothing", text |-> None]
    ELSE IF cn.final
         THEN IF Truthy(cn.result.text)
              THEN [kind |-> "result", text |-> cn.result.text]
              ELSE [kind |-> "nothing", text |-> None]
         ELSE IF Truthy(cn.partial)
              THEN [kind |-> "partial", text |-> cn.partial]
              ELSE [kind |-> "nothing", text |-> None]

\* Variant: FinalResult() read without the test for a recognizer.
StopFinalText_NoNoneCheck(bilingual, cnRec, enRec, cnFinal, enFinal) ==
    LET final_text == cnFinal IN
    IF bilingual /\ Truthy(enFinal)
    THEN LET merged == merge_results(
                 IF Truthy(final_text)
                 THEN [text |-> final_text, confidence |-> NoConf]
                 ELSE EmptyDict,
                 [text |-> enFinal, confidence |-> NoConf])
         IN  IF merged.obj # "None" THEN GetText(merged.dict) ELSE final_text
    ELSE final_text

\* server.py:166-181: final_text of the stop path, from the two FinalResult()
\* texts.  A recognizer that is None contributes nothing.
StopFinalText(bilingual, cnRec, enRec, cnFinal, enFinal) ==
    LET final_text == IF cnRec # "None" THEN cnFinal ELSE None IN
    IF bilingual /\ enRec # "None" /\ Truthy(enFinal)
    THEN LET merged == merge_results(
                 IF Truthy(final_text)
                 THEN [text |-> final_text, confidence |-> NoConf]
                 ELSE EmptyDict,
                 [text |-> enFinal, confidence |-> NoConf])
         IN  IF merged.obj # "None" THEN GetText(merged.dict) ELSE final_text
    ELSE final_text

\* Variant: call_deepseek_api_stream awaited in line instead of handed to
\* create_task: the loop is back at the next frame only when no dispatch runs.
Receive_AfterDispatch(kind) ==
    /\ pc = "recv"
    /\ LoopFree
    /\ nMsgs < MaxMsgs
    /\ conn = "open" \/ queued
    /\ dispatched = <<>>
    /\ queued' = FALSE
    /\ nMsgs' = nMsgs + 1
    /\ lastMsg' = kind

\* async for message in websocket: the next frame arrives.  A frame the
\* library buffered before the close is still delivered.
Receive(kind) ==
    /\ pc = "recv"
    /\ LoopFree
    /\ nMsgs < MaxMsgs
    /\ conn = "open" \/ queued
    /\ queued' = FALSE
    /\ nMsgs' = nMsgs + 1
    /\ lastMsg' = kind

\* An utterance taken out of the accumulator.
Utterance(t, frags, by) == [text |-> t, frags |-> frags, by |-> by]

\* asyncio.create_task(call_deepseek_api_stream(sentence, websocket)).  The
\* task waits on the completion API for as long as that takes; this part of
\* the model has no step that ends it, so every task in dispatched is one
\* that may still be in flight.
Dispatch(sentence) == dispatched' = Append(dispatched, sentence)

\* server.py:55-141, a binary frame, up to the call of add_text or to the
\* 'partial' event.
RecvAudio ==
    /\ Receive("audio")
    /\ \E cn \in DecOuts, en \in (IF use_bilingual THEN DecOuts ELSE {NoOut}) :
         LET out == AudioOutcome(use_bilingual, cn, en) IN
         /\ current_cn_recognizer' = "fed"
         /\ current_en_recognizer' =
                IF use_bilingual THEN "fed" ELSE current_en_recognizer
         /\ IF out.kind = "result"
            THEN /\ text' = out.text
                 /\ pc' = "add_text"
                 /\ loopOwner' = "ingest"
                 /\ evSent' = <<>>
            ELSE /\ text' = None
                 /\ pc' = "recv"
                 /\ loopOwner' = "none"
                 /\ evSent' = IF out.kind = "partial" /\ conn = "open"
                              THEN <<[type |-> "partial", text |-> out.text]>>
                              ELSE <<>>
    /\ UNCHANGED <<use_bilingual, current_sentence, last_update_time,
                   silence_check_task, complete_sentence, taskState, now, conn,
                   emitted, dispatched, bufFrags, droppedFrags, smLast, aside>>

\* server.py:99-104 (and 126-131): add_text, then the 'result' event.  A send
\* on a closed connection raises; the handler at 219 logs it and the loop
\* goes on to the next frame.
AddTextStep ==
    /\ pc = "add_text"
    /\ LET r == add_text(current_sentence, last_update_time, text, now)
           appended == Truthy(text) /\ Truthy(Strip(text))
           frags == bufFrags \cup {nMsgs}
       IN
       /\ current_sentence' = r.cs
       /\ last_update_time' = r.lut
       /\ smLast' = SmCall("add_text", text, current_sentence,
                           now - last_update_time, r.cs, r.ret, FALSE)
       /\ bufFrags' = IF ~appended THEN bufFrags
                      ELSE IF r.cs = <<>> THEN {} ELSE frags
       /\ emitted' = IF r.ret # None
                     THEN Append(emitted, Utterance(r.ret, frags, "punct"))
                     ELSE emitted
       /\ droppedFrags' = IF appended /\ r.cs = <<>> /\ r.ret = None
                          THEN droppedFrags \cup frags
                          ELSE droppedFrags
       /\ IF conn = "open"
          THEN /\ evSent' = Append(evSent, [type |-> "result", text |-> text])
               /\ complete_sentence' = r.ret
               /\ pc' = "after_send"
          ELSE /\ evSent' = evSent
               /\ complete_sentence' = None
               /\ pc' = "recv"
    /\ loopOwner' = "none"
    /\ text' = None
    /\ UNCHANGED <<use_bilingual, current_cn_recognizer, current_en_recognizer,
                   silence_check_task, taskState, now, conn, queued, nMsgs,
                   lastMsg, dispatched, aside>>

\* Variant: without a complete sentence, what is in the buffer is dispatched.
AfterSend_DispatchesBuffer ==
    /\ pc = "after_send"
    /\ LoopFree
    /\ IF Truthy(complete_sentence)
       THEN Dispatch(complete_sentence)
       ELSE IF Truthy(current_sentence)
       THEN Dispatch(current_sentence)
       ELSE UNCHANGED dispatched
    /\ complete_sentence' = None
    /\ pc' = "recv"
    /\ UNCHANGED <<use_bilingual, current_cn_recognizer, current_en_recognizer,
                   current_sentence, last_update_time, silence_check_task, text,
                   taskState, loopOwner, now, conn, queued, nMsgs, lastMsg,
                   evSent, emitted, bufFrags, droppedFrags, smLast, aside>>

\* server.py:106-109 (and 133-136): after the send, the dispatch.
AfterSend ==
    /\ pc = "after_send"
    /\ LoopFree
    /\ IF Truthy(complete_sentence)
       THEN Dispatch(complete_sentence)
       ELSE UNCHANGED dispatched
    /\ complete_sentence' = None
    /\ pc' = "recv"
    /\ UNCHANGED <<use_bilingual, current_cn_recognizer, current_en_recognizer,
                   current_sentence, last_update_time, silence_check_task, text,
                   taskState, loopOwner, now, conn, queued, nMsgs, lastMsg,
                   evSent, emitted, bufFrags, droppedFrags, smLast, aside>>

\* Variant: start without sentence_manager.reset().
RecvStart_NoReset ==
    /\ Receive("start")
    /\ current_cn_recognizer' = "fresh"
    /\ current_en_recognizer' =
           IF use_bilingual THEN "fresh" ELSE current_en_recognizer
    /\ UNCHANGED <<current_sentence, last_update_time, smLast, bufFrags>>
    /\ IF silence_check_task = 0
       THEN /\ taskState' = Append(taskState, "sleeping")
            /\ silence_check_task' = Len(taskState) + 1
       ELSE UNCHANGED <<taskState, silence_check_task>>
    /\ evSent' = IF conn = "open" THEN <<[type |-> "ready", text |-> None]>> ELSE <<>>
    /\ UNCHANGED <<use_bilingual, pc, text, complete_sentence, loopOwner, now,
                   conn, emitted, dispatched, droppedFrags, aside>>

\* Variant: every 'start' creates a silence task.
RecvStart_AlwaysCreates ==
    /\ Receive("start")
    /\ current_cn_recognizer' = "fresh"
    /\ current_en_recognizer' =
           IF use_bilingual THEN "fresh" ELSE current_en_recognizer
    /\ current_sentence' = reset(now).cs
    /\ last_update_time' = reset(now).lut
    /\ smLast' = SmCall("reset", None, current_sentence,
                        now - last_update_time, <<>>, None, FALSE)
    /\ bufFrags' = {}
    /\ taskState' = Append(taskState, "sleeping")
    /\ silence_check_task' = Len(taskState) + 1
    /\ evSent' = IF conn = "open" THEN <<[type |-> "ready", text |-> None]>> ELSE <<>>
    /\ UNCHANGED <<use_bilingual, pc, text, complete_sentence, loopOwner, now,
                   conn, emitted, dispatched, droppedFrags, aside>>

\* Variant: a 'start' dispatches what the buffer holds before it resets.
RecvStart_FlushesBuffer ==
    /\ Receive("start")
    /\ current_cn_recognizer' = "fresh"
    /\ current_en_recognizer' =
           IF use_bilingual THEN "fresh" ELSE current_en_recognizer
    /\ current_sentence' = reset(now).cs
    /\ last_update_time' = reset(now).lut
    /\ smLast' = SmCall("reset", None, current_sentence,
                        now - last_update_time, <<>>, None, FALSE)
    /\ bufFrags' = {}
    /\ IF silence_check_task = 0
       THEN /\ taskState' = Append(taskState, "sleeping")
            /\ silence_check_task' = Len(taskState) + 1
       ELSE UNCHANGED <<taskState, silence_check_task>>
    /\ evSent' = IF conn = "open" THEN <<[type |-> "ready", text |-> None]>> ELSE <<>>
    /\ IF LongEnough(Strip(current_sentence))
       THEN /\ emitted' = Append(emitted, Utterance(Strip(current_sentence),
                                                    bufFrags, "stop"))
            /\ Dispatch(Strip(current_sentence))
       ELSE UNCHANGED <<emitted, dispatched>>
    /\ UNCHANGED <<use_bilingual, pc, text, complete_sentence, loopOwner, now,
                   conn, droppedFrags, aside>>

\* server.py:146-163, {"type": "start"}: new recognizers, the manager reset,
\* the silence task created if there is none, then the 'ready' event.
RecvStart ==
    /\ Receive("start")
    /\ current_cn_recognizer' = "fresh"
    /\ current_en_recognizer' =
           IF use_bilingual THEN "fresh" ELSE current_en_recognizer
    /\ current_sentence' = reset(now).cs
    /\ last_update_time' = reset(now).lut
    /\ smLast' = SmCall("reset", None, current_sentence,
                        now - last_update_time, <<>>, None, FALSE)
    /\ bufFrags' = {}
    /\ IF silence_check_task = 0
       THEN /\ taskState' = Append(taskState, "sleeping")
            /\ silence_check_task' = Len(taskState) + 1
       ELSE UNCHANGED <<taskState, silence_check_task>>
    /\ evSent' = IF conn = "open" THEN <<[type |-> "ready", text |-> None]>> ELSE <<>>
    /\ UNCHANGED <<use_bilingual, pc, text, complete_sentence, loopOwner, now,
                   conn, emitted, dispatched, droppedFrags, aside>>

\* server.py:164-183, {"type": "stop"}: the recognizers' FinalResult() and
\* their merge.  With a final text the handler goes on to add_text, without
\* one straight to the teardown at 204.
RecvStop ==
    /\ Receive("stop")
    /\ \E cnFinal \in SessTexts,
          enFinal \in (IF use_bilingual /\ current_en_recognizer # "None"
                       THEN SessTexts ELSE {<<>>}) :
         LET final_text == StopFinalText(use_bilingual, current_cn_recognizer,
                                         current_en_recognizer, cnFinal, enFinal)
         IN  IF Truthy(final_text)
             THEN text' = final_text /\ pc' = "stop_add_text"
             ELSE text' = None /\ pc' = "stop_cancel"
    /\ loopOwner' = "ingest"
    /\ evSent' = <<>>
    /\ UNCHANGED <<use_bilingual, current_cn_recognizer, current_en_recognizer,
                   current_sentence, last_update_time, silence_check_task,
                   complete_sentence, taskState, now, conn, emitted, dispatched,
                   bufFrags, droppedFrags, smLast, aside>>

\* server.py:186-197: add_text(final_text); what is still in the buffer is
\* taken out and the manager reset; then the 'final' event.
StopAddText ==
    /\ pc = "stop_add_text"
    /\ LET r == add_text(current_sentence, last_update_time, text, now)
           appended == Truthy(text) /\ Truthy(Strip(text))
           frags == IF appended THEN bufFrags \cup {nMsgs} ELSE bufFrags
           forced == ~Truthy(r.ret) /\ Truthy(r.cs)
           sentence == IF forced THEN Strip(r.cs) ELSE r.ret
           kept == Truthy(sentence) /\ LongEnough(sentence)
       IN
       /\ current_sentence' = IF forced THEN reset(now).cs ELSE r.cs
       /\ last_update_time' = IF forced THEN reset(now).lut ELSE r.lut
       /\ smLast' = SmCall("add_text", text, current_sentence,
                           now - last_update_time, r.cs, r.ret, FALSE)
       /\ bufFrags' = IF forced \/ (appended /\ r.cs = <<>>) THEN {} ELSE bufFrags
       /\ emitted' = IF r.ret # None
                     THEN Append(emitted, Utterance(r.ret, frags, "punct"))
                     ELSE IF forced /\ kept
                     THEN Append(emitted, Utterance(sentence, frags, "stop"))
                     ELSE emitted
       /\ droppedFrags' = IF (forced /\ ~kept) \/ (appended /\ r.cs = <<>> /\ r.ret = None)
                          THEN droppedFrags \cup frags
                          ELSE droppedFrags
       /\ IF conn = "open"
          THEN /\ evSent' = Append(evSent, [type |-> "final", text |-> text])
               /\ complete_sentence' = sentence
               /\ pc' = "stop_after_send"
          ELSE /\ evSent' = evSent
               /\ complete_sentence' = None
               /\ pc' = "recv"
    /\ loopOwner' = "none"
    /\ text' = None
    /\ UNCHANGED <<use_bilingual, current_cn_recognizer, current_en_recognizer,
                   silence_check_task, taskState, now, conn, queued, nMsgs,
                   lastMsg, dispatched, aside>>

\* server.py:199-202: after the send, the dispatch of the final sentence.
StopAfterSend ==
    /\ pc = "stop_after_send"
    /\ LoopFree
    /\ IF Truthy(complete_sentence) /\ LongEnough(complete_sentence)
       THEN Dispatch(complete_sentence)
       ELSE UNCHANGED dispatched
    /\ complete_sentence' = None
    /\ pc' = "stop_cancel"
    /\ loopOwner' = "ingest"
    /\ UNCHANGED <<use_bilingual, current_cn_recognizer, current_en_recognizer,
                   current_sentence, last_update_time, silence_check_task, text,
                   taskState, now, conn, queued, nMsgs, lastMsg, evSent, emitted,
                   bufFrags, droppedFrags, smLast, aside>>

\* task.cancel(): a task waiting in its sleep is to get CancelledError there.
Cancel(k) ==
    taskState' = [taskState EXCEPT ![k] =
                     IF @ = "sleeping" THEN "cancelling" ELSE @]

\* server.py:213-215 and 235-237: the manager reset, the recognizers dropped.
Release ==
    /\ current_sentence' = reset(now).cs
    /\ last_update_time' = reset(now).lut
    /\ smLast' = SmCall("reset", None, current_sentence,
                        now - last_update_time, <<>>, None, FALSE)
    /\ bufFrags' = {}
    /\ current_cn_recognizer' = "None"
    /\ current_en_recognizer' = "None"

\* Variant: the stop path cancels the dispatch tasks as well.
StopCancel_CancelsDispatches ==
    /\ pc = "stop_cancel"
    /\ IF silence_check_task # 0
       THEN /\ Cancel(silence_check_task)
            /\ pc' = "stop_await"
            /\ UNCHANGED <<current_sentence, last_update_time, smLast, bufFrags,
                           current_cn_recognizer, current_en_recognizer>>
       ELSE /\ Release
            /\ pc' = "recv"
            /\ UNCHANGED taskState
    /\ dispatched' = <<>>
    /\ loopOwner' = "none"
    /\ UNCHANGED <<use_bilingual, silence_check_task, text, complete_sentence,
                   now, conn, queued, nMsgs, lastMsg, evSent, emitted,
                   droppedFrags, aside>>

\* server.py:204-215: the silence task is cancelled and awaited; without a
\* task the reset follows at once.
StopCancel ==
    /\ pc = "stop_cancel"
    /\ IF silence_check_task # 0
       THEN /\ Cancel(silence_check_task)
            /\ pc' = "stop_await"
            /\ UNCHANGED <<current_sentence, last_update_time, smLast, bufFrags,
                           current_cn_recognizer, current_en_recognizer>>
       ELSE /\ Release
            /\ pc' = "recv"
            /\ UNCHANGED taskState
    /\ loopOwner' = "none"
    /\ UNCHANGED <<use_bilingual, silence_check_task, text, complete_sentence,
                   now, conn, queued, nMsgs, lastMsg, evSent, emitted, dispatched,
                   droppedFrags, aside>>

\* Variant: the cancelled task is not awaited.
StopAwaited_NotAwaited ==
    /\ pc = "stop_await"
    /\ LoopFree
    /\ silence_check_task' = 0
    /\ Release
    /\ pc' = "recv"
    /\ UNCHANGED <<use_bilingual, text, complete_sentence, taskState, loopOwner,
                   now, conn, queued, nMsgs, lastMsg, evSent, emitted, dispatched,
                   droppedFrags, aside>>

\* Variant: the handle of the ended task is kept.
StopAwaited_KeepsHandle ==
    /\ pc = "stop_await"
    /\ LoopFree
    /\ taskState[silence_check_task] = "done"
    /\ Release
    /\ pc' = "recv"
    /\ UNCHANGED <<use_bilingual, silence_check_task, text, complete_sentence,
                   taskState, loopOwner, now, conn, queued, nMsgs, lastMsg,
                   evSent, emitted, dispatched, droppedFrags, aside>>

\* server.py:208-215: the awaited task has ended; the handle is dropped, the
\* manager reset and the recognizers released.
StopAwaited ==
    /\ pc = "stop_await"
    /\ LoopFree
    /\ taskState[silence_check_task] = "done"
    /\ silence_check_task' = 0
    /\ Release
    /\ pc' = "recv"
    /\ UNCHANGED <<use_bilingual, text, complete_sentence, taskState, loopOwner,
                   now, conn, queued, nMsgs, lastMsg, evSent, emitted, dispatched,
                   droppedFrags, aside>>

\* Variant: a frame that is not JSON costs the session its buffer.
RecvOther_DropsBuffer ==
    /\ \E kind \in {"other", "bad_json"} :
         /\ Receive(kind)
         /\ IF kind = "bad_json"
            THEN current_sentence' = <<>> /\ bufFrags' = {}
            ELSE UNCHANGED <<current_sentence, bufFrags>>
    /\ evSent' = <<>>
    /\ UNCHANGED <<use_bilingual, current_cn_recognizer, current_en_recognizer,
                   last_update_time, silence_check_task, pc, text,
                   complete_sentence, taskState, loopOwner, now, conn, emitted,
                   dispatched, droppedFrags, smLast, aside>>

\* server.py:143-146, 217-220: a text frame of another type, or one that is
\* not JSON (the error is logged).
RecvOther ==
    /\ \E kind \in {"other", "bad_json"} : Receive(kind)
    /\ evSent' = <<>>
    /\ UNCHANGED <<use_bilingual, current_cn_recognizer, current_en_recognizer,
                   current_sentence, last_update_time, silence_check_task, pc,
                   text, complete_sentence, taskState, loopOwner, now, conn,
                   emitted, dispatched, bufFrags, droppedFrags, smLast, aside>>

\* The client closes the connection; one frame may already be buffered.
\* The library learns of the close in a callback of the event loop, between
\* two stretches of the coroutines.
ClientClose ==
    /\ conn = "open"
    /\ LoopFree
    /\ conn' = "closed"
    /\ queued' \in (IF nMsgs < MaxMsgs THEN BOOLEAN ELSE {FALSE})
    /\ UNCHANGED <<use_bilingual, current_cn_recognizer, current_en_recognizer,
                   current_sentence, last_update_time, silence_check_task, pc,
                   text, complete_sentence, taskState, loopOwner, now, nMsgs,
                   lastMsg, evSent, emitted, dispatched, bufFrags, droppedFrags,
                   smLast, aside>>

\* server.py:222-237: the frame loop ends on the closed connection; finally
\* cancels and awaits the silence task, or resets at once without one.
LoopExit ==
    /\ pc = "recv"
    /\ LoopFree
    /\ conn = "closed" /\ ~queued
    /\ IF silence_check_task # 0
       THEN /\ Cancel(silence_check_task)
            /\ pc' = "finally_await"
            /\ UNCHANGED <<current_sentence, last_update_time, smLast, bufFrags,
                           current_cn_recognizer, current_en_recognizer>>
       ELSE /\ Release
            /\ pc' = "done"
            /\ UNCHANGED taskState
    /\ UNCHANGED <<use_bilingual, silence_check_task, text, complete_sentence,
                   loopOwner, now, conn, queued, nMsgs, lastMsg, evSent, emitted,
                   dispatched, droppedFrags, aside>>

\* server.py:230-237: the awaited task has ended; reset and release.
FinallyAwaited ==
    /\ pc = "finally_await"
    /\ LoopFree
    /\ taskState[silence_check_task] = "done"
    /\ Release
    /\ pc' = "done"
    /\ UNCHANGED <<use_bilingual, silence_check_task, text, complete_sentence,
                   taskState, loopOwner, now, conn, queued, nMsgs, lastMsg,
                   evSent, emitted, dispatched, droppedFrags, aside>>

\* server.py:43-44: a silence task's sleep is over and the loop resumes it.
\* (The 0.5 s sleep is shorter than the clock's second.)
SilenceWake(k) ==
    /\ taskState[k] = "sleeping"
    /\ LoopFree
    /\ taskState' = [taskState EXCEPT ![k] = "in_check"]
    /\ loopOwner' = "silence"
    /\ UNCHANGED <<use_bilingual, current_cn_recognizer, current_en_recognizer,
                   current_sentence, last_update_time, silence_check_task, pc,
                   text, complete_sentence, now, conn, queued, nMsgs, lastMsg,
                   evSent, emitted, dispatched, bufFrags, droppedFrags, smLast,
                   aside>>

\* Variant: the task goes back to its sleep between check_silence_timeout
\* and create_task, and the sentence is not dispatched.
SilenceCheck_SleepsBeforeDispatch(k) ==
    /\ taskState[k] = "in_check"
    /\ LET r == check_silence_timeout(current_sentence, last_update_time, now)
           elapsed == current_sentence # <<>>
                      /\ now - last_update_time >= ASR_SILENCE_TIMEOUT
       IN
       /\ current_sentence' = r.cs
       /\ last_update_time' = r.lut
       /\ smLast' = SmCall("check", None, current_sentence,
                           now - last_update_time, r.cs, r.ret,
                           smLast.op = "check" /\ smLast.pre # <<>>
                           /\ smLast.elapsed >= ASR_SILENCE_TIMEOUT)
       /\ bufFrags' = IF r.cs = <<>> THEN {} ELSE bufFrags
       /\ IF Truthy(r.ret)
          THEN /\ emitted' = Append(emitted, Utterance(r.ret, bufFrags, "timeout"))
               /\ UNCHANGED dispatched
          ELSE UNCHANGED <<emitted, dispatched>>
       /\ droppedFrags' = IF elapsed /\ r.ret = None
                          THEN droppedFrags \cup bufFrags
                          ELSE droppedFrags
    /\ taskState' = [taskState EXCEPT ![k] = "sleeping"]
    /\ loopOwner' = "none"
    /\ UNCHANGED <<use_bilingual, current_cn_recognizer, current_en_recognizer,
                   silence_check_task, pc, text, complete_sentence, now, conn,
                   queued, nMsgs, lastMsg, evSent, aside>>

\* server.py:45-49: check_silence_timeout, the dispatch of what it returns,
\* and back to the sleep.
SilenceCheck(k) ==
    /\ taskState[k] = "in_check"
    /\ LET r == check_silence_timeout(current_sentence, last_update_time, now)
           elapsed == current_sentence # <<>>
                      /\ now - last_update_time >= ASR_SILENCE_TIMEOUT
       IN
       /\ current_sentence' = r.cs
       /\ last_update_time' = r.lut
       /\ smLast' = SmCall("check", None, current_sentence,
                           now - last_update_time, r.cs, r.ret,
                           smLast.op = "check" /\ smLast.pre # <<>>
                           /\ smLast.elapsed >= ASR_SILENCE_TIMEOUT)
       /\ bufFrags' = IF r.cs = <<>> THEN {} ELSE bufFrags
       /\ IF Truthy(r.ret)
          THEN /\ emitted' = Append(emitted, Utterance(r.ret, bufFrags, "timeout"))
               /\ Dispatch(r.ret)
          ELSE UNCHANGED <<emitted, dispatched>>
       /\ droppedFrags' = IF elapsed /\ r.ret = None
                          THEN droppedFrags \cup bufFrags
                          ELSE droppedFrags
    /\ taskState' = [taskState EXCEPT ![k] = "sleeping"]
    /\ loopOwner' = "none"
    /\ UNCHANGED <<use_bilingual, current_cn_recognizer, current_en_recognizer,
                   silence_check_task, pc, text, complete_sentence, now, conn,
                   queued, nMsgs, lastMsg, evSent, aside>>

\* server.py:44: CancelledError is raised in the sleep and ends the task.
SilenceCancelled(k) ==
    /\ taskState[k] = "cancelling"
    /\ LoopFree
    /\ taskState' = [taskState EXCEPT ![k] = "done"]
    /\ UNCHANGED <<use_bilingual, current_cn_recognizer, current_en_recognizer,
                   current_sentence, last_update_time, silence_check_task, pc,
                   text, complete_sentence, loopOwner, now, conn, queued, nMsgs,
                   lastMsg, evSent, emitted, dispatched, bufFrags, droppedFrags,
                   smLast, aside>>

\* A second passes while every coroutine waits.  The program reads the
\* clock only as now - last_update_time and only over a non-empty buffer
\* (sentence_manager.py:65-69; add_text and reset overwrite last_update_time),
\* so the seconds that pass over an empty buffer are not counted.
Tick ==
    /\ now < MaxTime
    /\ current_sentence # <<>>
    /\ LoopFree
    /\ now' = now + 1
    /\ UNCHANGED <<use_bilingual, current_cn_recognizer, current_en_recognizer,
                   current_sentence, last_update_time, silence_check_task, pc,
                   text, complete_sentence, taskState, loopOwner, conn, queued,
                   nMsgs, lastMsg, evSent, emitted, dispatched, bufFrags,
                   droppedFrags, smLast, aside>>

Init ==
    /\ SessionInit
    /\ use_bilingual \in BOOLEAN
    /\ mIn = <<EmptyDict, EmptyDict>>
    /\ mOut = MergePending
    /\ ChatInit(None)
    /\ TtsInit(<<>>, TRUE)
    /\ SrvInit
    /\ FrameInit

Next ==
    \/ RecvAudio
    \/ AddTextStep
    \/ AfterSend
    \/ RecvStart
    \/ RecvStop
    \/ StopAddText
    \/ StopAfterSend
    \/ StopCancel
    \/ StopAwaited
    \/ RecvOther
    \/ ClientClose
    \/ LoopExit
    \/ FinallyAwaited
    \/ \E k \in DOMAIN taskState : SilenceWake(k)
    \/ \E k \in DOMAIN taskState : SilenceCheck(k)
    \/ \E k \in DOMAIN taskState : SilenceCancelled(k)
    \/ Tick

Spec == Init /\ [][Next]_vars

----------------------------------------------------------------------------
\* Properties of the accumulator and of the session (under Spec).

\* The terminal punctuation marks.
Terminals == {"cjk_period", "cjk_excl", "cjk_quest", ".", "!", "?"}

HasTerminal(s) == \E i \in 1..Len(s) : s[i] \in Terminals

\* The buffer of the last add_text call once its fragment has been joined on.
LastJoined ==
    IF smLast.pre # <<>>
    THEN smLast.pre \o <<" ">> \o Strip(smLast.arg)
    ELSE Strip(smLast.arg)

\* handle_audio holds an utterance between its send and its dispatch.
PendingDispatch ==
    \/ pc = "after_send" /\ Truthy(complete_sentence)
    \/ pc = "stop_after_send" /\ Truthy(complete_sentence)
       /\ Len(complete_sentence) >= ASR_MIN_SENTENCE_LENGTH

\* C1: an add_text call with a non-blank fragment after which the
\* space-joined buffer holds a terminal punctuation mark and has a trimmed
\* length of at least ASR_MIN_SENTENCE_LENGTH returns exactly that trimmed
\* buffer, and current_sentence is empty right after the call.
C1_PunctuationEmitsBuffer ==
    (/\ smLast.op = "add_text"
     /\ Strip(smLast.arg) # <<>>
     /\ HasTerminal(LastJoined)
     /\ Len(Strip(LastJoined)) >= ASR_MIN_SENTENCE_LENGTH)
    => (smLast.ret = Strip(LastJoined) /\ smLast.post = <<>>)

\* A fragment with a terminal mark joined onto a non-empty buffer, returned.
C1_Witness ==
    /\ smLast.op = "add_text"
    /\ smLast.pre # <<>>
    /\ HasTerminal(LastJoined)
    /\ smLast.ret = LastJoined
    /\ current_sentence = <<>>

\* C2 as stated: a check_silence_timeout call over a non-empty buffer that
\* saw no add_text for ASR_SILENCE_TIMEOUT returns the buffered text and
\* clears the buffer.
C2_TimeoutEmitsBuffer ==
    (/\ smLast.op = "check"
     /\ smLast.pre # <<>>
     /\ smLast.elapsed >= ASR_SILENCE_TIMEOUT)
    => (smLast.ret = Strip(smLast.pre) /\ smLast.post = <<>>)

\* C2, amended: such a call clears the buffer and returns the trimmed text
\* if its length is at least ASR_MIN_SENTENCE_LENGTH, and returns nothing for
\* a shorter one; a check_silence_timeout call made right after it returns
\* nothing.
C2_TimeoutClearsBuffer ==
    /\ (/\ smLast.op = "check"
        /\ smLast.pre # <<>>
        /\ smLast.elapsed >= ASR_SILENCE_TIMEOUT)
       => /\ smLast.post = <<>>
          /\ smLast.ret = IF Len(Strip(smLast.pre)) >= ASR_MIN_SENTENCE_LENGTH
                          THEN Strip(smLast.pre)
                          ELSE None
    /\ (smLast.op = "check" /\ smLast.afterTimeout) => smLast.ret = None

\* The second of two checks in a row, the first of which emitted the buffer.
C2_Witness ==
    /\ smLast.op = "check"
    /\ smLast.afterTimeout
    /\ emitted # <<>>
    /\ emitted[Len(emitted)].by = "timeout"

\* C3: handle_audio is never inside add_text while a silence task is inside
\* check_silence_timeout.
C3_MutualExclusion ==
    ~(/\ pc \in {"add_text", "stop_add_text"}
      /\ \E k \in DOMAIN taskState : taskState[k] = "in_check")

\* handle_audio is inside add_text over a non-empty buffer while the silence
\* task waits in its sleep.
C3_Witness ==
    /\ pc = "add_text"
    /\ current_sentence # <<>>
    /\ \E k \in DOMAIN taskState : taskState[k] = "sleeping"

C5_MinLength ==
    /\ \A i \in 1..Len(dispatched) :
          Len(Strip(dispatched[i])) >= ASR_MIN_SENTENCE_LENGTH
    /\ \A i \in 1..Len(emitted) :
          /\ Len(Strip(emitted[i].text)) >= ASR_MIN_SENTENCE_LENGTH
          /\ emitted[i].frags \cap droppedFrags = {}
    /\ bufFrags \cap droppedFrags = {}
    /\ PendingDispatch => Len(Strip(complete_sentence)) >= ASR_MIN_SENTENCE_LENGTH

\* A short buffer was dropped and a later utterance dispatched.
C5_Witness ==
    /\ droppedFrags # {}
    /\ dispatched # <<>>
    /\ \E f \in droppedFrags : \E g \in emitted[Len(emitted)].frags : f < g

\* C10: once a 'start' frame is handled on an open connection, the primary
\* recognizer is fresh, the secondary is fresh if a secondary model is
\* configured and absent if not, the buffer is empty, the silence task runs,
\* and exactly one event, 'ready', was sent for the frame.
C10_StartMakesActive ==
    (pc = "recv" /\ lastMsg = "start" /\ conn = "open") =>
        /\ current_cn_recognizer = "fresh"
        /\ current_en_recognizer = (IF use_bilingual THEN "fresh" ELSE "None")
        /\ current_sentence = <<>>
        /\ bufFrags = {}
        /\ silence_check_task \in DOMAIN taskState
        /\ taskState[silence_check_task] \in {"sleeping", "in_check"}
        /\ evSent = <<[type |-> "ready", text |-> None]>>

\* A 'start' that found fed recognizers and text in the buffer.
C10_Witness ==
    /\ pc = "recv" /\ lastMsg = "start" /\ conn = "open"
    /\ use_bilingual
    /\ smLast.op = "reset" /\ smLast.pre # <<>>
    /\ current_en_recognizer = "fresh"

\* The handling of a 'stop' frame has reached its end at server.py:215.  (A
\* handling that the failed send of 'final' cut short leaves the last
\* SentenceManager call an add_text or a check.)
StopCompleted == pc = "recv" /\ lastMsg = "stop" /\ smLast.op = "reset"

\* C11: when the handling of a 'stop' frame ends, the reset at its end has
\* thrown away no buffer content that makes an utterance (trimmed length at
\* least ASR_MIN_SENTENCE_LENGTH): whatever the buffer held at the stop has
\* been force-emitted, also when the recognizers' final text is empty.
C11_StopForceEmits ==
    StopCompleted => Len(Strip(smLast.pre)) < ASR_MIN_SENTENCE_LENGTH

\* Every silence task there ever was has ended.
AllSilenceTasksDone == \A k \in DOMAIN taskState : taskState[k] = "done"

\* This step takes a 'start' frame.
StartStep == nMsgs' # nMsgs /\ lastMsg' = "start"

\* This step emits an utterance on the silence path.
SilenceEmitStep ==
    /\ Len(emitted') > Len(emitted)
    /\ emitted'[Len(emitted')].by = "timeout"

\* What holds when a 'stop' has been handled to its end, or the finally
\* block of handle_audio has run.
C12_TornDown ==
    (StopCompleted \/ pc = "done") =>
        /\ AllSilenceTasksDone
        /\ StopCompleted => silence_check_task = 0
        /\ current_sentence = <<>>
        /\ bufFrags = {}
        /\ current_cn_recognizer = "None"
        /\ current_en_recognizer = "None"

\* C12: when the handling of a 'stop' frame has reached its end, or the
\* finally block has run, the silence task has been cancelled and has ended,
\* the buffer is empty and both recognizers are released; and from a state
\* in which every silence task has ended, a step that does not take a 'start'
\* frame leaves them ended, is no step of a silence task and emits nothing on
\* the silence path.
C12_StopTearsDown ==
    /\ []C12_TornDown
    /\ [][(AllSilenceTasksDone /\ ~StartStep) =>
            /\ AllSilenceTasksDone'
            /\ taskState' = taskState
            /\ ~SilenceEmitStep]_vars

\* A 'stop' handled to its end in a session whose 'start' had made a silence
\* task, which is now ended.
C12_Witness ==
    /\ StopCompleted
    /\ taskState = <<"done">>
    /\ silence_check_task = 0

\* No recognizer exists: before any 'start' or audio frame, or after a 'stop'.
Idle == current_cn_recognizer = "None"

\* A step of handle_audio for a frame: it takes the frame or moves on in the
\* frame's handling.
IngestStep == nMsgs' # nMsgs \/ (pc \notin {"recv", "done"} /\ pc' # pc)

\* Nothing of the session changes and no event is sent.
IgnoredStep ==
    /\ current_cn_recognizer' = "None"
    /\ current_en_recognizer' = "None"
    /\ current_sentence = <<>> /\ current_sentence' = <<>>
    /\ silence_check_task' = silence_check_task
    /\ taskState' = taskState
    /\ evSent' = <<>>
    /\ emitted' = emitted
    /\ dispatched' = dispatched

\* C13 as stated: while no recognizer exists, every step handle_audio makes
\* for a frame other than 'start' (an audio frame among them) makes no
\* recognizer, leaves the accumulator as it is and sends no event.
C13_IdleIgnoresInput ==
    [][(Idle /\ IngestStep /\ lastMsg' # "start") => IgnoredStep]_vars

\* C13, amended: that holds of every text frame other than 'start' ('stop',
\* another type, not JSON); an audio frame is not ignored.
C13_IdleIgnoresControl ==
    [][(Idle /\ IngestStep /\ lastMsg' \in {"stop", "other", "bad_json"})
            => IgnoredStep]_vars

\* A 'stop' frame as the first frame of the connection, handled to its end.
C13_Witness ==
    /\ StopCompleted
    /\ nMsgs = 1
    /\ Idle
    /\ evSent = <<>>

\* C14: with a dispatch in flight, handle_audio waiting at the frame loop
\* takes the next frame of whichever kind as soon as there is one, and on the
\* stop path goes on to the teardown; it never waits for a dispatch.
C14_LoopNeverWaits ==
    dispatched # <<>> =>
        /\ (pc = "recv" /\ LoopFree /\ nMsgs < MaxMsgs /\ conn = "open") =>
               (ENABLED RecvAudio /\ ENABLED RecvStart /\ ENABLED RecvStop
                /\ ENABLED RecvOther)
        /\ pc = "stop_cancel" => ENABLED StopCancel

\* The utterance of the first frame is dispatched and a later audio frame
\* has been taken and answered with an event.
C14_Witness ==
    /\ Len(dispatched) = 1
    /\ emitted[1].frags = {1}
    /\ nMsgs >= 2
    /\ lastMsg = "audio"
    /\ pc = "recv"
    /\ evSent # <<>>

----------------------------------------------------------------------------
\* merge_results on its own: every pair of results over MergeTexts and the
\* confidences 0..MaxConf (or no 'confidence' key), merged.

MergeTexts ==
    { <<>>,
      <<" ">>,
      <<"ni", "hao">>,
      <<"da", "kai">>,
      <<"c", "u", "r", "l">>,
      <<" ", "c", "u", "r", "l", " ">>,
      <<"o", "p", "e", "n">>,
      <<"C", "D">>,
      <<"f", "o", "r", "g", "e", "t">>,
      <<"g", "o", " ", "o", "n">>,
      <<"a", " ", "b", " ", "c">>,
      <<"a", "1">> }

MergeDicts ==
    [text : MergeTexts \cup {NoText}, confidence : (0..MaxConf) \cup {NoConf}]

InitMerge ==
    /\ SessionInit
    /\ use_bilingual = TRUE
    /\ mIn \in MergeDicts \X MergeDicts
    /\ mOut = MergePending
    /\ ChatInit(None)
    /\ TtsInit(<<>>, TRUE)
    /\ SrvInit
    /\ FrameInit

\* merged = merge_results(cn_result, en_result)
CallMerge ==
    /\ mOut = MergePending
    /\ mOut' = merge_results(mIn[1], mIn[2])
    /\ UNCHANGED <<mIn, sessionVars, frameVars, chatVars, ttsVars, srvVars>>

NextMerge == CallMerge

SpecMerge == InitMerge /\ [][NextMerge]_vars

----------------------------------------------------------------------------
\* Properties of merge_results (under SpecMerge).

MergeDone == mOut # MergePending

\* The trimmed texts and the confidences of the two arguments.
pText == Strip(GetText(mIn[1]))
sText == Strip(GetText(mIn[2]))
pConf == GetConfidence(mIn[1])
sConf == GetConfidence(mIn[2])

MarkerWords ==
    { <<"c","u","r","l">>, <<"g","e","t">>, <<"p","o","s","t">>,
      <<"h","t","t","p">>, <<"a","p","i">>, <<"j","s","o","n">>,
      <<"c","o","d","e">>, <<"f","i","l","e">>, <<"d","i","r">>,
      <<"c","d">>, <<"l","s">>, <<"p","w","d">> }

\* The marker-word rule: the lowercased secondary text contains a marker
\* word and sConf > pConf * 0.7.
MarkerRuleFires ==
    /\ \E w \in MarkerWords : Contains(Lower(sText), w)
    /\ 10 * sConf > 7 * pConf

\* The primary-wins condition: pConf > sConf * 0.7.
PrimaryAbove == 10 * pConf > 7 * sConf

NiHao == <<"ni", "hao">>
DaKai == <<"da", "kai">>
Curl == <<"c", "u", "r", "l">>
Open == <<"o", "p", "e", "n">>

\* C6: merge_results returns None if and only if both trimmed texts are
\* empty; when exactly one trimmed text is non-empty it returns that argument
\* itself, unchanged; merge({ni hao, 0.9}, {'', 0}) is {ni hao, 0.9}.
C6_NoneIffBothEmpty ==
    MergeDone =>
        /\ (mOut.obj = "None") <=> (pText = <<>> /\ sText = <<>>)
        /\ (pText # <<>> /\ sText = <<>>) =>
                (mOut.obj = "cn_result" /\ mOut.dict = mIn[1])
        /\ (pText = <<>> /\ sText # <<>>) =>
                (mOut.obj = "en_result" /\ mOut.dict = mIn[2])
        /\ (mIn = << [text |-> NiHao, confidence |-> 9],
                     [text |-> <<>>, confidence |-> 0] >>) =>
                mOut.dict = [text |-> NiHao, confidence |-> 9]

C6_Witness ==
    /\ MergeDone
    /\ mIn = << [text |-> NiHao, confidence |-> 9],
                [text |-> <<>>, confidence |-> 0] >>
    /\ mOut.obj = "cn_result"

\* C7: with both trimmed texts non-empty, merge_results returns the
\* secondary argument exactly when the marker-word rule fires, also when
\* pConf > sConf * 0.7 holds as well; merge({curl, 0.4}, {curl, 0.6}) is
\* {curl, 0.6}.
C7_MarkerRuleFirst ==
    (MergeDone /\ pText # <<>> /\ sText # <<>>) =>
        /\ (mOut.obj = "en_result") <=> MarkerRuleFires
        /\ MarkerRuleFires => mOut.dict = mIn[2]
        /\ (mIn = << [text |-> Curl, confidence |-> 4],
                     [text |-> Curl, confidence |-> 6] >>) =>
                mOut.dict = [text |-> Curl, confidence |-> 6]

\* The marker-word rule and the primary-wins condition both hold, and the
\* secondary is returned.
C7_Witness ==
    /\ MergeDone
    /\ pText # <<>> /\ sText # <<>>
    /\ MarkerRuleFires /\ PrimaryAbove
    /\ mOut.obj = "en_result"

\* C8: with both trimmed texts non-empty and the marker-word rule not
\* firing, merge_results returns the primary argument unchanged whenever
\* pConf > sConf * 0.7.
C8_PrimaryWins ==
    (MergeDone /\ pText # <<>> /\ sText # <<>> /\ ~MarkerRuleFires /\ PrimaryAbove) =>
        (mOut.obj = "cn_result" /\ mOut.dict = mIn[1])

\* The secondary has a marker word but too low a confidence; the primary wins.
C8_Witness ==
    /\ MergeDone
    /\ pText = NiHao /\ sText = Curl
    /\ ~MarkerRuleFires /\ PrimaryAbove
    /\ mOut.obj = "cn_result"

\* C9: with both trimmed texts non-empty and neither rule firing, the result
\* is {pText + ' ' + sText, max(pConf, sConf)} if sText has at most two
\* whitespace-separated tokens and is alphabetic, and otherwise carries the
\* text of the argument with the higher confidence, the primary on a tie;
\* merge({da kai, 0.5}, {open, 0.9}) is {da kai open, 0.9}.
C9_CloseConfidences ==
    (MergeDone /\ pText # <<>> /\ sText # <<>> /\ ~MarkerRuleFires /\ ~PrimaryAbove) =>
        /\ mOut.obj = "new"
        /\ IF SplitCount(sText) <= 2 /\ IsAlpha(sText)
           THEN mOut.dict = [text |-> pText \o <<" ">> \o sText,
                             confidence |-> Max(pConf, sConf)]
           ELSE mOut.dict.text = (IF sConf > pConf THEN sText ELSE pText)
        /\ (mIn = << [text |-> DaKai, confidence |-> 5],
                     [text |-> Open, confidence |-> 9] >>) =>
                mOut.dict = [text |-> DaKai \o <<" ">> \o Open, confidence |-> 9]

C9_Witness ==
    /\ MergeDone
    /\ mIn = << [text |-> DaKai, confidence |-> 5],
                [text |-> Open, confidence |-> 9] >>
    /\ mOut.obj = "new"
    /\ mOut.dict.text = DaKai \o <<" ">> \o Open

\* Both texts are there, neither rule fires and the secondary is no short
\* alphabetic fragment: line 52 of result_merger.py picks the text.
PicksByConfidence ==
    /\ MergeDone
    /\ pText # <<>> /\ sText # <<>>
    /\ ~MarkerRuleFires /\ ~PrimaryAbove
    /\ ~(SplitCount(sText) <= 2 /\ IsAlpha(sText))

C36_SecondaryReached ==
    /\ PicksByConfidence
    /\ pText = NiHao
    /\ mIn[1].confidence = 5 /\ mIn[2].confidence = 8
    /\ mOut.dict.text = <<"g", "o", " ", "o", "n">>

----------------------------------------------------------------------------
\* python/asr/server.py:55-141 and 217-220 on its own: the handling of one
\* audio frame in an Active session on an open connection, as a function of
\* what the recognizers do with the frame and of the buffer before it.

\* The buffer before the frame.
FrameBuffers == { <<>>, <<"a">> }

\* frameIn: raises names the recognizer whose AcceptWaveform (or whose
\* Result) raises an exception, "none" if neither does.  The Chinese
\* recognizer runs first; the English one does not run after it has raised.
FrameInputs ==
    { [bilingual |-> b, cn |-> cn, en |-> en, cs |-> cs, raises |-> r] :
        b \in BOOLEAN, cn \in DecOuts, en \in DecOuts \cup {NoOut},
        cs \in FrameBuffers, r \in {"none", "cn", "en"} }

FrameInputOk(f) ==
    /\ f.bilingual <=> f.en # NoOut
    /\ f.raises = "en" => f.bilingual

\* server.py:66-141, 219-220: the events of the frame, the buffer after it
\* and the sentence handed to call_deepseek_api_stream (None if there is
\* none).  An exception is logged: nothing is sent, nothing changes.
HandledFrame(f) ==
    IF f.raises # "none"
    THEN [events |-> <<>>, cs |-> f.cs, dispatch |-> None]
    ELSE LET out == AudioOutcome(f.bilingual, f.cn, f.en) IN
         IF out.kind = "result"
         THEN LET r == add_text(f.cs, 0, out.text, 0) IN
              [events |-> <<[type |-> "result", text |-> out.text]>>,
               cs |-> r.cs, dispatch |-> r.ret]
         ELSE IF out.kind = "partial"
         THEN [events |-> <<[type |-> "partial", text |-> out.text]>>,
               cs |-> f.cs, dispatch |-> None]
         ELSE [events |-> <<>>, cs |-> f.cs, dispatch |-> None]

HandleFrame ==
    /\ frameOut = FramePending
    /\ frameOut' = HandledFrame(frameIn)
    /\ UNCHANGED <<frameIn, sessionVars, mIn, mOut, chatVars, ttsVars, srvVars>>

InitFrame ==
    /\ SessionInit
    /\ use_bilingual = TRUE
    /\ mIn = <<EmptyDict, EmptyDict>>
    /\ mOut = MergePending
    /\ ChatInit(None)
    /\ TtsInit(<<>>, TRUE)
    /\ SrvInit
    /\ frameIn \in {f \in FrameInputs : FrameInputOk(f)}
    /\ frameOut = FramePending

NextFrame == HandleFrame

SpecFrame == InitFrame /\ [][NextFrame]_vars

----------------------------------------------------------------------------
\* Properties of the handling of one audio frame (under SpecFrame).

FrameHandled == frameOut # FramePending

\* The text of the final hypothesis, merged in bilingual mode.
FinalText ==
    IF frameIn.bilingual
    THEN LET merged == merge_results(frameIn.cn.result, frameIn.en.result) IN
         IF merged.obj # "None" THEN GetText(merged.dict) ELSE None
    ELSE GetText(frameIn.cn.result)

\* C25: a recognizer that raises while an audio frame is handled gets an
\* 'error' event sent to the client, and the buffer is kept.
C25_DecoderErrorEvent ==
    (FrameHandled /\ frameIn.raises # "none") =>
        /\ \E i \in 1..Len(frameOut.events) : frameOut.events[i].type = "error"
        /\ frameOut.cs = frameIn.cs

\* No recognizer has a final hypothesis for the frame.
NoFinal == ~frameIn.cn.final /\ ~frameIn.en.final

SomePartial == Truthy(frameIn.cn.partial) \/ Truthy(frameIn.en.partial)

\* The one event of the frame is a 'partial' with the Chinese partial, or
\* with the English one if the Chinese one is empty.
PartialEventSent ==
    frameOut.events =
        << [type |-> "partial",
            text |-> IF Truthy(frameIn.cn.partial)
                     THEN frameIn.cn.partial ELSE frameIn.en.partial] >>

\* The one event of the frame is a 'result' with the final text, and the
\* buffer is what add_text makes of it with that text.
ResultEventSent ==
    /\ frameOut.events = << [type |-> "result", text |-> FinalText] >>
    /\ frameOut.cs = add_text(frameIn.cs, 0, FinalText, 0).cs
    /\ frameOut.dispatch = add_text(frameIn.cs, 0, FinalText, 0).ret

\* C30 as stated: a non-empty partial of either recognizer gives a 'partial'
\* event, whatever the other recognizer returned.
C30_AnyPartialShown ==
    (FrameHandled /\ frameIn.raises = "none") =>
        /\ SomePartial => PartialEventSent
        /\ (~NoFinal /\ Truthy(FinalText)) => ResultEventSent

\* C30, amended: when no recognizer has a final hypothesis for the frame and
\* one of them has a non-empty partial, one 'partial' event is sent, with the
\* Chinese partial if it is not empty and else the English one; when a
\* recognizer has a final hypothesis and the (merged) final text is not
\* empty, one 'result' event with that text is sent and the text goes to
\* add_text; a partial beside a final hypothesis is not sent.
C30_PartialOrResult ==
    (FrameHandled /\ frameIn.raises = "none") =>
        /\ (NoFinal /\ SomePartial) => PartialEventSent
        /\ (~NoFinal /\ Truthy(FinalText)) => ResultEventSent
        /\ ((NoFinal /\ ~SomePartial) \/ (~NoFinal /\ ~Truthy(FinalText))) =>
               frameOut = [events |-> <<>>, cs |-> frameIn.cs, dispatch |-> None]

\* Bilingual mode: the Chinese partial is empty, the English one is shown.
C30_Witness ==
    /\ FrameHandled /\ frameIn.raises = "none"
    /\ frameIn.bilingual
    /\ frameIn.cn.partial = <<>>
    /\ frameIn.en.partial = <<"a">>
    /\ frameOut.events = << [type |-> "partial", text |-> <<"a">>] >>

----------------------------------------------------------------------------
\* python/asr/ai_client.py: call_deepseek_api_stream(message, websocket) on
\* its own, one call from its start to its end.  The actions are the
\* stretches between its awaits; the client may close the websocket between
\* any two of them.

\* Lines response.aiter_lines() yields in one response.
MaxLines == 3

\* The utterance handed to the call.
ChatMessage == <<"n", "i">>

ChatTokens == { None, <<>>, <<"s", "k">> }

\* A key that an event does not have.
NoKey == <<"<no key>">>

\* The JSON events of the reply stream.
StreamStart(user_input) ==
    [type |-> "ai_response_stream_start", user_input |-> user_input,
     chunk |-> NoKey, accumulated |-> NoKey, full_text |-> NoKey, error |-> "<no key>"]

StreamChunk(content, accumulated) ==
    [type |-> "ai_response_stream", user_input |-> NoKey,
     chunk |-> content, accumulated |-> accumulated, full_text |-> NoKey,
     error |-> "<no key>"]

StreamEnd(full_text) ==
    [type |-> "ai_response_stream_end", user_input |-> NoKey,
     chunk |-> NoKey, accumulated |-> NoKey, full_text |-> full_text,
     error |-> "<no key>"]

\* error is the kind of the description: "token" (no token configured),
\* "status" (a status other than 200), "timeout", "api" (an error object in
\* the stream), "exception" (any other exception).
StreamEndError(error) ==
    [type |-> "ai_response_stream_end", user_input |-> NoKey,
     chunk |-> NoKey, accumulated |-> NoKey, full_text |-> NoKey,
     error |-> error]

\* One item of response.aiter_lines(), by what the loop at 136-181 makes of it:
\*   blank         ''                                  (137: skipped)
\*   nodata        ': keep-alive', '[DONE]'            (141: no 'data: ' prefix)
\*   done          'data: [DONE]'                      (144: break)
\*   bad_json      'data: {"choices"'                  (179: JSONDecodeError)
\*   error_obj     'data: {"error": {"message": ..}}'  (152-160)
\*   nonobject     'data: 5', 'data: {"choices": [{"delta": null}]}'
\*                 (152, 164-168: TypeError or AttributeError)
\*   nochoices     'data: {"choices": []}'             (163: nothing to do)
\*   delta         'data: {"choices": [{"delta": {"content": c}}]}'
\*   read_timeout  no line: httpx.ReadTimeout raised by the iterator
\*   read_error    no line: another httpx error raised by the iterator
\*   read_error_closed   no line: another error raised by the iterator, whose
\*                 message holds 'ConnectionClosed' or '1005', such as httpx's
\*                 'peer closed connection without sending complete message
\*                 body (received 1005 bytes, expected 4096)'
Line(kind, content) == [kind |-> kind, content |-> content]

DeltaContents == { <<>>, <<"h", "i">>, <<"!">> }

Lines ==
    { Line(k, <<>>) : k \in {"blank", "nodata", "done", "bad_json", "error_obj",
                             "nonobject", "nochoices", "read_timeout",
                             "read_error", "read_error_closed"} }
    \cup { Line("delta", c) : c \in DeltaContents }

LineSeqs == UNION { [1..n -> Lines] : n \in 0..MaxLines }

\* What the request comes to: the status line, or an exception of
\* client.stream(); "exception_closed" is one whose message holds
\* 'ConnectionClosed' or '1005'.
HttpOutcomes == {"200", "status", "timeout", "exception", "exception_closed"}

\* Variant: websocket.send called without the guards of safe_send.
safe_send_unguarded(closed) == [ok |-> ~closed, raised |-> closed]

\* safe_send(data), ai_client.py:63-80: False without a send if the websocket
\* is closed, False if the send raises, True if it went out; never raises.
safe_send(closed) == [ok |-> ~closed, raised |-> FALSE]

\* Variant: a line that is not JSON treated like any other exception.
LineEffect_BadJsonRaises(line, buf) ==
    CASE line.kind \in {"blank", "nodata", "nochoices"} ->
             [buffer |-> buf, ev |-> NoKey, next |-> "continue"]
      [] line.kind = "done" ->
             [buffer |-> buf, ev |-> NoKey, next |-> "break"]
      [] line.kind = "bad_json" ->
             [buffer |-> buf, ev |-> NoKey, next |-> "exception"]
      [] line.kind = "error_obj" ->
             [buffer |-> buf, ev |-> StreamEndError("api"), next |-> "abort"]
      [] line.kind = "nonobject" ->
             [buffer |-> buf, ev |-> NoKey, next |-> "exception"]
      [] line.kind = "delta" ->
             IF Truthy(line.content)
             THEN [buffer |-> buf \o line.content,
                   ev |-> StreamChunk(line.content, buf \o line.content),
                   next |-> "forward"]
             ELSE [buffer |-> buf, ev |-> NoKey, next |-> "continue"]
      [] line.kind = "read_timeout" ->
             [buffer |-> buf, ev |-> NoKey, next |-> "timeout"]
      [] line.kind = "read_error" ->
             [buffer |-> buf, ev |-> NoKey, next |-> "exception"]
      [] line.kind = "read_error_closed" ->
             [buffer |-> buf, ev |-> NoKey, next |-> "exception_closed"]

\* Variant: the loop reads on after 'data: [DONE]'.
LineEffect_NoBreak(line, buf) ==
    CASE line.kind \in {"blank", "nodata", "nochoices", "bad_json", "done"} ->
             [buffer |-> buf, ev |-> NoKey, next |-> "continue"]
      [] line.kind = "error_obj" ->
             [buffer |-> buf, ev |-> StreamEndError("api"), next |-> "abort"]
      [] line.kind = "nonobject" ->
             [buffer |-> buf, ev |-> NoKey, next |-> "exception"]
      [] line.kind = "delta" ->
             IF Truthy(line.content)
             THEN [buffer |-> buf \o line.content,
                   ev |-> StreamChunk(line.content, buf \o line.content),
                   next |-> "forward"]
             ELSE [buffer |-> buf, ev |-> NoKey, next |-> "continue"]
      [] line.kind = "read_timeout" ->
             [buffer |-> buf, ev |-> NoKey, next |-> "timeout"]
      [] line.kind = "read_error" ->
             [buffer |-> buf, ev |-> NoKey, next |-> "exception"]
      [] line.kind = "read_error_closed" ->
             [buffer |-> buf, ev |-> NoKey, next |-> "exception_closed"]

\* Variant: the text accumulated so far replaced by each delta instead of
\* extended by it.
LineEffect_Overwrites(line, buf) ==
    CASE line.kind \in {"blank", "nodata", "nochoices", "bad_json"} ->
             [buffer |-> buf, ev |-> NoKey, next |-> "continue"]
      [] line.kind = "done" ->
             [buffer |-> buf, ev |-> NoKey, next |-> "break"]
      [] line.kind = "error_obj" ->
             [buffer |-> buf, ev |-> StreamEndError("api"), next |-> "abort"]
      [] line.kind = "nonobject" ->
             [buffer |-> buf, ev |-> NoKey, next |-> "exception"]
      [] line.kind = "delta" ->
             IF Truthy(line.content)
             THEN [buffer |-> line.content,
                   ev |-> StreamChunk(line.content, line.content),
                   next |-> "forward"]
             ELSE [buffer |-> buf, ev |-> NoKey, next |-> "continue"]
      [] line.kind = "read_timeout" ->
             [buffer |-> buf, ev |-> NoKey, next |-> "timeout"]
      [] line.kind = "read_error" ->
             [buffer |-> buf, ev |-> NoKey, next |-> "exception"]
      [] line.kind = "read_error_closed" ->
             [buffer |-> buf, ev |-> NoKey, next |-> "exception_closed"]

\* ai_client.py:136-181, the body of the loop for one line with the text
\* accumulated so far: the new text, the event to send if any, and how the
\* loop goes on: "continue", "break", "forward" (send, return if that
\* fails), "abort" (send, return), "timeout", "exception" or
\* "exception_closed" (raised).
LineEffect(line, buf) ==
    CASE line.kind \in {"blank", "nodata", "nochoices", "bad_json"} ->
             [buffer |-> buf, ev |-> NoKey, next |-> "continue"]
      [] line.kind = "done" ->
             [buffer |-> buf, ev |-> NoKey, next |-> "break"]
      [] line.kind = "error_obj" ->
             [buffer |-> buf, ev |-> StreamEndError("api"), next |-> "abort"]
      [] line.kind = "nonobject" ->
             [buffer |-> buf, ev |-> NoKey, next |-> "exception"]
      [] line.kind = "delta" ->
             IF Truthy(line.content)
             THEN [buffer |-> buf \o line.content,
                   ev |-> StreamChunk(line.content, buf \o line.content),
                   next |-> "forward"]
             ELSE [buffer |-> buf, ev |-> NoKey, next |-> "continue"]
      [] line.kind = "read_timeout" ->
             [buffer |-> buf, ev |-> NoKey, next |-> "timeout"]
      [] line.kind = "read_error" ->
             [buffer |-> buf, ev |-> NoKey, next |-> "exception"]
      [] line.kind = "read_error_closed" ->
             [buffer |-> buf, ev |-> NoKey, next |-> "exception_closed"]

\* A send of ev is attempted; ok says whether it went out.
Try(ev, ok) == tried' = Append(tried, [ev |-> ev, ok |-> ok])

\* ai_client.py:194-199: except httpx.TimeoutException.  The safe_send is
\* outside any try.
OnTimeout ==
    LET r == safe_send(websocket_closed) IN
    /\ Try(StreamEndError("timeout"), r.ok)
    /\ chatRaised' = r.raised
    /\ cpc' = "done"

\* ai_client.py:200-213: except Exception.  An exception whose message names
\* a closed connection is dropped; otherwise the error is sent, inside a try.
OnException(namesClosed) ==
    /\ IF namesClosed
       THEN UNCHANGED tried
       ELSE Try(StreamEndError("exception"), safe_send(websocket_closed).ok)
    /\ chatRaised' = FALSE
    /\ cpc' = "done"

\* Variant: the request made whatever the token is.
ChatBegin_NoTokenCheck ==
    /\ cpc = "begin"
    /\ cpc' = "request"
    /\ UNCHANGED <<deepseek_token, websocket_closed, httpOutcome, respLines,
                   lineNo, buffer, tried, lineLog, requestOpened, chatRaised,
                   sessionVars, frameVars, mIn, mOut, ttsVars, srvVars>>

\* ai_client.py:37-60: without a token one 'ai_response_stream_end' with an
\* error is sent (websocket.send in a try of its own) and the call returns.
ChatBegin ==
    /\ cpc = "begin"
    /\ IF ~Truthy(deepseek_token)
       THEN /\ Try(StreamEndError("token"), ~websocket_closed)
            /\ cpc' = "done"
       ELSE /\ cpc' = "request"
            /\ UNCHANGED tried
    /\ UNCHANGED <<deepseek_token, websocket_closed, httpOutcome, respLines,
                   lineNo, buffer, lineLog, requestOpened, chatRaised,
                   sessionVars, frameVars, mIn, mOut, ttsVars, srvVars>>

\* ai_client.py:106-119: the request is made and its status line read.
ChatRequest ==
    /\ cpc = "request"
    /\ requestOpened' = TRUE
    /\ \E o \in HttpOutcomes :
         /\ httpOutcome' = o
         /\ CASE o = "200" ->
                   /\ \E ls \in LineSeqs : respLines' = ls
                   /\ cpc' = "send_start"
                   /\ UNCHANGED <<tried, chatRaised>>
              [] o = "status" ->
                   /\ Try(StreamEndError("status"), safe_send(websocket_closed).ok)
                   /\ cpc' = "done"
                   /\ UNCHANGED <<respLines, chatRaised>>
              [] o = "timeout" ->
                   OnTimeout /\ UNCHANGED respLines
              [] o = "exception" ->
                   OnException(FALSE) /\ UNCHANGED respLines
              [] o = "exception_closed" ->
                   OnException(TRUE) /\ UNCHANGED respLines
    /\ UNCHANGED <<deepseek_token, websocket_closed, lineNo, buffer, lineLog,
                   sessionVars, frameVars, mIn, mOut, ttsVars, srvVars>>

\* Variant: the result of safe_send not looked at.
ChatSendStart_IgnoresResult ==
    /\ cpc = "send_start"
    /\ Try(StreamStart(ChatMessage), safe_send(websocket_closed).ok)
    /\ cpc' = "lines"
    /\ buffer' = <<>>
    /\ UNCHANGED <<deepseek_token, websocket_closed, httpOutcome, respLines,
                   lineNo, lineLog, requestOpened, chatRaised, sessionVars, frameVars,
                   mIn, mOut, ttsVars, srvVars>>

\* ai_client.py:125-134: 'ai_response_stream_start'; the call returns if it
\* did not go out.
ChatSendStart ==
    /\ cpc = "send_start"
    /\ LET r == safe_send(websocket_closed) IN
       /\ Try(StreamStart(ChatMessage), r.ok)
       /\ cpc' = IF r.ok THEN "lines" ELSE "done"
    /\ buffer' = <<>>
    /\ UNCHANGED <<deepseek_token, websocket_closed, httpOutcome, respLines,
                   lineNo, lineLog, requestOpened, chatRaised, sessionVars, frameVars,
                   mIn, mOut, ttsVars, srvVars>>

\* ai_client.py:136-181: the next line is read and handled; at the end of
\* the response the loop ends.
ChatLine ==
    /\ cpc = "lines"
    /\ IF lineNo = Len(respLines)
       THEN /\ cpc' = "send_end"
            /\ UNCHANGED <<lineNo, buffer, tried, lineLog, chatRaised>>
       ELSE LET e == LineEffect(respLines[lineNo + 1], buffer)
                r == safe_send(websocket_closed)
            IN
            /\ lineNo' = lineNo + 1
            /\ buffer' = e.buffer
            /\ lineLog' = Append(lineLog,
                                 [pre |-> buffer, post |-> e.buffer,
                                  sends |-> IF e.next \in {"continue", "break",
                                                         "exception_closed"}
                                            THEN 0 ELSE 1])
            /\ CASE e.next = "continue" ->
                      cpc' = "lines" /\ UNCHANGED <<tried, chatRaised>>
                 [] e.next = "break" ->
                      cpc' = "send_end" /\ UNCHANGED <<tried, chatRaised>>
                 [] e.next = "forward" ->
                      /\ Try(e.ev, r.ok)
                      /\ cpc' = IF r.ok THEN "lines" ELSE "done"
                      /\ UNCHANGED chatRaised
                 [] e.next = "abort" ->
                      /\ Try(e.ev, r.ok)
                      /\ cpc' = "done"
                      /\ UNCHANGED chatRaised
                 [] e.next = "timeout" -> OnTimeout
                 [] e.next = "exception" -> OnException(FALSE)
                 [] e.next = "exception_closed" -> OnException(TRUE)
    /\ UNCHANGED <<deepseek_token, websocket_closed, httpOutcome, respLines,
                   requestOpened, sessionVars, frameVars, mIn, mOut, ttsVars, srvVars>>

\* ai_client.py:187-192: 'ai_response_stream_end' with the whole text.
ChatSendEnd ==
    /\ cpc = "send_end"
    /\ Try(StreamEnd(buffer), safe_send(websocket_closed).ok)
    /\ cpc' = "done"
    /\ UNCHANGED <<deepseek_token, websocket_closed, httpOutcome, respLines,
                   lineNo, buffer, lineLog, requestOpened, chatRaised,
                   sessionVars, frameVars, mIn, mOut, ttsVars, srvVars>>

\* The client closes the websocket while the call waits.
ChatClose ==
    /\ cpc # "done"
    /\ ~websocket_closed
    /\ websocket_closed' = TRUE
    /\ UNCHANGED <<deepseek_token, cpc, httpOutcome, respLines, lineNo, buffer,
                   tried, lineLog, requestOpened, chatRaised, sessionVars, frameVars,
                   mIn, mOut, ttsVars, srvVars>>

InitChat ==
    /\ SessionInit
    /\ use_bilingual = TRUE
    /\ mIn = <<EmptyDict, EmptyDict>>
    /\ mOut = MergePending
    /\ \E tok \in ChatTokens : ChatInit(tok)
    /\ TtsInit(<<>>, TRUE)
    /\ SrvInit
    /\ FrameInit

NextChat ==
    \/ ChatBegin
    \/ ChatRequest
    \/ ChatSendStart
    \/ ChatLine
    \/ ChatSendEnd
    \/ ChatClose

SpecChat == InitChat /\ [][NextChat]_vars

----------------------------------------------------------------------------
\* Properties of call_deepseek_api_stream (under SpecChat).

ChatDone == cpc = "done"

\* The events that went out, in order.
SentEvents ==
    LET out == SelectSeq(tried, LAMBDA t : t.ok) IN
    [i \in 1..Len(out) |-> out[i].ev]

\* The lines of the response before the first 'data: [DONE]'.
BeforeSentinel ==
    LET dones == {i \in 1..Len(respLines) : respLines[i].kind = "done"} IN
    IF dones = {}
    THEN respLines
    ELSE SubSeq(respLines, 1, (CHOOSE i \in dones : \A j \in dones : i <= j) - 1)

\* The non-empty deltas among them, in order.
NonEmptyDeltas ==
    LET deltas == SelectSeq(BeforeSentinel,
                            LAMBDA l : l.kind = "delta" /\ l.content # <<>>)
    IN  [i \in 1..Len(deltas) |-> deltas[i].content]

\* The first n of them, joined.
RECURSIVE JoinedDeltas(_)
JoinedDeltas(n) ==
    IF n = 0 THEN <<>> ELSE JoinedDeltas(n - 1) \o NonEmptyDeltas[n]

\* The response is one that ends by the sentinel or by its last line: before
\* the sentinel nothing fails and there is no error object and no JSON value
\* of another shape.
CleanStream ==
    \A i \in 1..Len(BeforeSentinel) :
        BeforeSentinel[i].kind \in
            {"blank", "nodata", "bad_json", "nochoices", "delta"}

\* C15: without a token (None or '') no request is ever opened, and the call
\* ends after exactly one attempted send: an ai_response_stream_end with an
\* error and no full_text, which goes out if the websocket is open; no
\* stream_start and no chunk is ever sent.
C15_NoTokenOneEnd ==
    ~Truthy(deepseek_token) =>
        /\ ~requestOpened
        /\ httpOutcome = "none"
        /\ cpc \in {"begin", "done"}
        /\ ChatDone =>
              /\ Len(tried) = 1
              /\ tried[1].ev.type = "ai_response_stream_end"
              /\ tried[1].ev.error # "<no key>"
              /\ tried[1].ev.full_text = NoKey
              /\ tried[1].ok <=> ~websocket_closed
              /\ ~websocket_closed => SentEvents = <<StreamEndError("token")>>

\* The call has ended with the token '' and the one event sent.
C15_Witness ==
    /\ deepseek_token = <<>>
    /\ ChatDone
    /\ ~websocket_closed
    /\ Len(SentEvents) = 1

\* C16: a call that got status 200 and a response that ends by the sentinel
\* or by its last line, with the websocket open to the end, has sent: one
\* ai_response_stream_start; then for the k-th non-empty delta before the
\* sentinel a chunk event with that delta and the first k deltas joined; then
\* one ai_response_stream_end whose full_text is all of them joined.  Nothing
\* comes from a line after the sentinel, and no line after it is read.
C16_StartChunksEnd ==
    (ChatDone /\ httpOutcome = "200" /\ ~websocket_closed /\ CleanStream) =>
        /\ Len(SentEvents) = Len(NonEmptyDeltas) + 2
        /\ SentEvents[1] = StreamStart(ChatMessage)
        /\ \A k \in 1..Len(NonEmptyDeltas) :
              SentEvents[k + 1] = StreamChunk(NonEmptyDeltas[k], JoinedDeltas(k))
        /\ SentEvents[Len(SentEvents)] =
              StreamEnd(JoinedDeltas(Len(NonEmptyDeltas)))
        /\ lineNo <= Len(BeforeSentinel) + 1

\* A delta, the sentinel and a delta after it: one chunk and the end.
C16_Witness ==
    /\ ChatDone /\ httpOutcome = "200" /\ ~websocket_closed
    /\ Len(respLines) = 3
    /\ respLines[1].kind = "delta" /\ respLines[1].content # <<>>
    /\ respLines[2].kind = "done"
    /\ respLines[3].kind = "delta" /\ respLines[3].content # <<>>
    /\ Len(SentEvents) = 3

\* The last attempted send is an ai_response_stream_end with this error and
\* no full_text, and it went out unless the websocket was closed.
EndsWithError(error) ==
    /\ tried # <<>>
    /\ tried[Len(tried)].ev = StreamEndError(error)
    /\ tried[Len(tried)].ok <=> ~websocket_closed

\* C17: no exception ever leaves the call.  A call that got a status other
\* than 200, or whose request timed out, ends with one attempted send and no
\* line read: an ai_response_stream_end with an error and no full_text.  A
\* timeout while the lines are read ends it the same way, after the start
\* and the chunks sent so far.
C17_FailureEndsWithError ==
    /\ ~chatRaised
    /\ (ChatDone /\ httpOutcome = "status") =>
          (Len(tried) = 1 /\ EndsWithError("status") /\ lineNo = 0)
    /\ (ChatDone /\ httpOutcome = "timeout") =>
          (Len(tried) = 1 /\ EndsWithError("timeout") /\ lineNo = 0)
    /\ (ChatDone /\ lineNo > 0 /\ respLines[lineNo].kind = "read_timeout") =>
          /\ EndsWithError("timeout")
          /\ \A i \in 1..(Len(tried) - 1) :
                tried[i].ev.type # "ai_response_stream_end"

\* The response timed out after a chunk, and the websocket was closed by then.
C17_Witness ==
    /\ ChatDone
    /\ lineNo = 2
    /\ respLines[2].kind = "read_timeout"
    /\ websocket_closed
    /\ Len(tried) = 3
    /\ tried[2].ok /\ ~tried[3].ok

\* The kinds of 'data: ' lines whose payload is malformed: not JSON, or JSON
\* that is no object of the shape of a delta.
NotDeltaKinds == {"bad_json", "nonobject"}

\* The stream has gone on after line i, or ended with an
\* ai_response_stream_end that carries full_text.
GoesOnAfter(i) ==
    \/ lineNo > i
    \/ cpc \in {"lines", "send_end"}
    \/ /\ ChatDone
       /\ tried[Len(tried)].ev = StreamEnd(lineLog[i].post)

C19_ClosedStopsForwarding ==
    \A i \in 1..Len(tried) :
        (/\ ~tried[i].ok
         /\ tried[i].ev.type \in {"ai_response_stream_start", "ai_response_stream"})
        => /\ i = Len(tried)
           /\ ChatDone
           /\ ~chatRaised
           /\ tried[i].ev.type = "ai_response_stream_start" => lineNo = 0
           /\ tried[i].ev.type = "ai_response_stream" =>
                  /\ respLines[lineNo].kind = "delta"
                  /\ tried[i].ev.chunk = respLines[lineNo].content

\* The second chunk did not go out; a third delta is left unread.
C19_Witness ==
    /\ ChatDone
    /\ Len(tried) = 3
    /\ tried[2].ok /\ ~tried[3].ok
    /\ tried[3].ev.type = "ai_response_stream"
    /\ lineNo = 2 /\ Len(respLines) = 3
    /\ respLines[3].kind = "delta" /\ respLines[3].content # <<>>

\* The chunk events the call tried to send, in order.
ChunkEvents ==
    LET cs == SelectSeq(tried, LAMBDA t : t.ev.type = "ai_response_stream") IN
    [i \in 1..Len(cs) |-> cs[i].ev]

\* The 'chunk' fields of the first k of them, joined.
RECURSIVE JoinedChunks(_)
JoinedChunks(k) ==
    IF k = 0 THEN <<>> ELSE JoinedChunks(k - 1) \o ChunkEvents[k].chunk

\* C31: in every call, whatever the response and whether or not the
\* websocket stays open, the 'accumulated' field of the k-th chunk event is
\* the 'chunk' fields of chunk events 1..k joined in order, every chunk is a
\* non-empty delta of the response, and an ai_response_stream_end that
\* carries full_text carries all the non-empty deltas before the sentinel or
\* the end of the response, joined in order, and is the last event.
C31_AccumulatedIsJoinedChunks ==
    /\ \A k \in 1..Len(ChunkEvents) :
          /\ ChunkEvents[k].accumulated = JoinedChunks(k)
          /\ k <= Len(NonEmptyDeltas)
          /\ ChunkEvents[k].chunk = NonEmptyDeltas[k]
    /\ \A i \in 1..Len(tried) :
          (tried[i].ev.type = "ai_response_stream_end"
              /\ tried[i].ev.full_text # NoKey) =>
             /\ i = Len(tried)
             /\ tried[i].ev.full_text = JoinedDeltas(Len(NonEmptyDeltas))
             /\ tried[i].ev.full_text = JoinedChunks(Len(ChunkEvents))

\* Two different deltas went out and the end after them.
C31_Witness ==
    /\ ChatDone /\ ~websocket_closed
    /\ Len(ChunkEvents) = 2
    /\ ChunkEvents[1].chunk # ChunkEvents[2].chunk
    /\ SentEvents[Len(SentEvents)].type = "ai_response_stream_end"
    /\ SentEvents[Len(SentEvents)].full_text # NoKey

\* The call has returned, its ai_response_stream_start went out and the
\* websocket is still open.
StartedAndOpen ==
    /\ ChatDone
    /\ ~websocket_closed
    /\ SentEvents # <<>>
    /\ SentEvents[1].type = "ai_response_stream_start"

\* Exactly one ai_response_stream_end went out, as the last event, with
\* full_text or with error and not with both.
OneEndLast ==
    /\ Len(SelectSeq(SentEvents,
                     LAMBDA e : e.type = "ai_response_stream_end")) = 1
    /\ SentEvents[Len(SentEvents)].type = "ai_response_stream_end"
    /\ (SentEvents[Len(SentEvents)].full_text # NoKey)
          <=> (SentEvents[Len(SentEvents)].error = "<no key>")

\* C35: a call that has sent ai_response_stream_start and whose websocket
\* stays open has, when it returns, sent exactly one ai_response_stream_end,
\* with full_text or with error, as its last event, however the response
\* ended.
C35_OneEndAfterStart ==
    StartedAndOpen => OneEndLast

\* The reading of the response ended with an exception whose message holds
\* 'ConnectionClosed' or '1005'.
EndedByNamedClosed ==
    lineNo > 0 /\ respLines[lineNo].kind = "read_error_closed"

\* What holds of C35 in the code: every call that did not end that way has
\* sent its one ai_response_stream_end; one that did has sent none.
C35_OneEndUnlessNamedClosed ==
    StartedAndOpen =>
        IF EndedByNamedClosed
        THEN \A i \in 1..Len(SentEvents) :
                 SentEvents[i].type # "ai_response_stream_end"
        ELSE OneEndLast

----------------------------------------------------------------------------
\* python/tts/synthesizer.py: text_to_speech_edge_stream on its own, one
\* synthesis request from its start to its end.  The actions are the
\* stretches between its awaits; the client may close the websocket between
\* any two of them.  Sizes are in bytes.

\* Items communicate.stream() yields in one request.
MaxChunks == 3

min_buffer_size == 8192

TtsTexts == { <<>>, <<" ">>, <<"n", "i">> }

\* What communicate.stream() yields or raises:
\*   [type |-> "audio", data |-> n]   an MP3 chunk of n bytes
\*   [type |-> "WordBoundary", ..]    metadata
\*   [type |-> "NoAudioReceived", ..] edge_tts.exceptions.NoAudioReceived raised
\*   [type |-> "exception", ..]       another exception raised
StreamItems ==
    { [type |-> "audio", data |-> n] : n \in {0, 4096, 8192} }
    \cup { [type |-> t, data |-> 0] :
             t \in {"WordBoundary", "NoAudioReceived", "exception"} }

\* len(raw_audio) for an MP3 block of n bytes: nothing if ffmpeg makes
\* nothing of the block, else the PCM of the block (24 kHz, 16 bit, mono:
\* 48000 bytes a second, against 6000 for the MP3).
DecodedSizes(n) == {0, 8 * n}

\* What goes out on the websocket: a JSON event with its total_size, or a
\* binary frame with its length.
TtsEvent(type, n) == [type |-> type, n |-> n]

\* The call returns; outcome says how.
TtsReturn(outcome) == tpc' = "done" /\ ttsOutcome' = outcome

\* Variant: the bytes sent are not added to total_size.
Forward_NoCount(raw, nextPc) ==
    IF raw = 0
    THEN /\ tpc' = nextPc
         /\ UNCHANGED <<ttsSent, total_size, ttsOutcome>>
    ELSE IF tts_closed
    THEN /\ TtsReturn("closed")
         /\ UNCHANGED <<ttsSent, total_size>>
    ELSE /\ ttsSent' = Append(ttsSent, TtsEvent("binary", raw))
         /\ UNCHANGED total_size
         /\ tpc' = nextPc
         /\ UNCHANGED ttsOutcome

\* synthesizer.py:209-216 and 248-255: raw_audio, if there is any, is sent
\* and counted; on a closed websocket the call returns.
Forward(raw, nextPc) ==
    IF raw = 0
    THEN /\ tpc' = nextPc
         /\ UNCHANGED <<ttsSent, total_size, ttsOutcome>>
    ELSE IF tts_closed
    THEN /\ TtsReturn("closed")
         /\ UNCHANGED <<ttsSent, total_size>>
    ELSE /\ ttsSent' = Append(ttsSent, TtsEvent("binary", raw))
         /\ total_size' = total_size + raw
         /\ tpc' = nextPc
         /\ UNCHANGED ttsOutcome

\* synthesizer.py:186-207 and 226-246: the block is written to a file and
\* ffmpeg run on it (FileNotFoundError without ffmpeg), then its output
\* forwarded.  block is len(mp3_data), data the chunks joined in mp3_data.
DecodeAndForward(block, data, nextPc) ==
    IF ~ffmpeg_installed
    THEN /\ tpc' = "inner_error"
         /\ UNCHANGED <<ttsSent, total_size, ttsOutcome, decoded>>
    ELSE \E raw \in DecodedSizes(block) :
            /\ decoded' = Append(decoded, [block |-> block, data |-> data, raw |-> raw])
            /\ Forward(raw, nextPc)

\* synthesizer.py:96-108: an empty text; audio_start is sent.  Otherwise the
\* voices are fetched (119-139).
TtsBegin ==
    /\ tpc = "begin"
    /\ IF ~Truthy(tts_text) \/ ~Truthy(Strip(tts_text))
       THEN IF tts_closed
            THEN TtsReturn("closed") /\ UNCHANGED ttsSent
            ELSE /\ ttsSent' = Append(ttsSent, TtsEvent("audio_start", 0))
                 /\ tpc' = "empty_end"
                 /\ UNCHANGED ttsOutcome
       ELSE /\ tpc' = "send_start"
            /\ UNCHANGED <<ttsSent, ttsOutcome>>
    /\ UNCHANGED <<tts_text, tts_closed, ffmpeg_installed, chunksIn, decoded,
                   buffer_size, mp3_chunks, total_size, sessionVars, frameVars, mIn, mOut, chatVars, srvVars>>

\* synthesizer.py:109-117: audio_end with total_size 0 after the audio_start
\* of an empty text.
TtsEmptyEnd ==
    /\ tpc = "empty_end"
    /\ IF tts_closed
       THEN TtsReturn("closed") /\ UNCHANGED ttsSent
       ELSE /\ ttsSent' = Append(ttsSent, TtsEvent("audio_end", 0))
            /\ TtsReturn("empty")
    /\ UNCHANGED <<tts_text, tts_closed, ffmpeg_installed, chunksIn, decoded,
                   buffer_size, mp3_chunks, total_size, sessionVars, frameVars, mIn, mOut, chatVars, srvVars>>

\* synthesizer.py:141-165: audio_start is sent (the call returns on a closed
\* websocket), then edge_tts.Communicate is made; an exception there goes to
\* the handlers at 309-335, which tell NoAudioReceived from the rest.
TtsSendStart ==
    /\ tpc = "send_start"
    /\ IF tts_closed
       THEN TtsReturn("closed") /\ UNCHANGED ttsSent
       ELSE /\ ttsSent' = Append(ttsSent, TtsEvent("audio_start", 0))
            /\ tpc' \in {"stream", "no_audio_end", "outer_error"}
            /\ UNCHANGED ttsOutcome
    /\ UNCHANGED <<tts_text, tts_closed, ffmpeg_installed, chunksIn, decoded,
                   buffer_size, mp3_chunks, total_size, sessionVars, frameVars, mIn, mOut, chatVars, srvVars>>

\* Variant: the buffer is drained only once it holds more than
\* min_buffer_size bytes.
TtsChunk_StrictThreshold ==
    /\ tpc = "stream"
    /\ Len(chunksIn) < MaxChunks
    /\ \E item \in StreamItems :
         /\ chunksIn' = Append(chunksIn, item)
         /\ IF item.type \in {"NoAudioReceived", "exception"}
            THEN /\ tpc' = "inner_error"
                 /\ UNCHANGED <<buffer_size, mp3_chunks, ttsSent, total_size, ttsOutcome,
                                decoded>>
            ELSE IF item.type = "audio" /\ item.data > 0
            THEN IF buffer_size + item.data > min_buffer_size
                 THEN /\ buffer_size' = 0
                      /\ mp3_chunks' = <<>>
                      /\ DecodeAndForward(buffer_size + item.data,
                                          Append(mp3_chunks, Len(chunksIn) + 1),
                                          "stream")
                 ELSE /\ buffer_size' = buffer_size + item.data
                      /\ mp3_chunks' = Append(mp3_chunks, Len(chunksIn) + 1)
                      /\ UNCHANGED <<tpc, ttsSent, total_size, ttsOutcome,
                                     decoded>>
            ELSE UNCHANGED <<tpc, buffer_size, mp3_chunks, ttsSent, total_size, ttsOutcome,
                             decoded>>
    /\ UNCHANGED <<tts_text, tts_closed, ffmpeg_installed, sessionVars, frameVars, mIn,
                   mOut, chatVars, srvVars>>

\* Variant: the list of chunks is not emptied when the buffer is drained.
TtsChunk_KeepsChunks ==
    /\ tpc = "stream"
    /\ Len(chunksIn) < MaxChunks
    /\ \E item \in StreamItems :
         /\ chunksIn' = Append(chunksIn, item)
         /\ IF item.type \in {"NoAudioReceived", "exception"}
            THEN /\ tpc' = "inner_error"
                 /\ UNCHANGED <<buffer_size, mp3_chunks, ttsSent, total_size, ttsOutcome,
                                decoded>>
            ELSE IF item.type = "audio" /\ item.data > 0
            THEN IF buffer_size + item.data >= min_buffer_size
                 THEN /\ buffer_size' = 0
                      /\ mp3_chunks' = Append(mp3_chunks, Len(chunksIn) + 1)
                      /\ DecodeAndForward(buffer_size + item.data,
                                          Append(mp3_chunks, Len(chunksIn) + 1),
                                          "stream")
                 ELSE /\ buffer_size' = buffer_size + item.data
                      /\ mp3_chunks' = Append(mp3_chunks, Len(chunksIn) + 1)
                      /\ UNCHANGED <<tpc, ttsSent, total_size, ttsOutcome,
                                     decoded>>
            ELSE UNCHANGED <<tpc, buffer_size, mp3_chunks, ttsSent, total_size, ttsOutcome,
                             decoded>>
    /\ UNCHANGED <<tts_text, tts_closed, ffmpeg_installed, sessionVars, frameVars, mIn,
                   mOut, chatVars, srvVars>>

\* synthesizer.py:172-222: the next item of the stream.  Audio data is put
\* in the buffer, and the buffer decoded and forwarded once it holds
\* min_buffer_size bytes.  An exception of the stream goes to the handler at
\* 275.
TtsChunk ==
    /\ tpc = "stream"
    /\ Len(chunksIn) < MaxChunks
    /\ \E item \in StreamItems :
         /\ chunksIn' = Append(chunksIn, item)
         /\ IF item.type \in {"NoAudioReceived", "exception"}
            THEN /\ tpc' = "inner_error"
                 /\ UNCHANGED <<buffer_size, mp3_chunks, ttsSent, total_size, ttsOutcome,
                                decoded>>
            ELSE IF item.type = "audio" /\ item.data > 0
            THEN IF buffer_size + item.data >= min_buffer_size
                 THEN /\ buffer_size' = 0
                      /\ mp3_chunks' = <<>>
                      /\ DecodeAndForward(buffer_size + item.data,
                                          Append(mp3_chunks, Len(chunksIn) + 1),
                                          "stream")
                 ELSE /\ buffer_size' = buffer_size + item.data
                      /\ mp3_chunks' = Append(mp3_chunks, Len(chunksIn) + 1)
                      /\ UNCHANGED <<tpc, ttsSent, total_size, ttsOutcome,
                                     decoded>>
            ELSE UNCHANGED <<tpc, buffer_size, mp3_chunks, ttsSent, total_size, ttsOutcome,
                             decoded>>
    /\ UNCHANGED <<tts_text, tts_closed, ffmpeg_installed, sessionVars, frameVars, mIn,
                   mOut, chatVars, srvVars>>

\* Variant: what is left in the buffer at the end of the stream is dropped.
TtsFlush_Drops ==
    /\ tpc = "stream"
    /\ tpc' = "send_end"
    /\ UNCHANGED <<ttsSent, total_size, ttsOutcome, decoded>>
    /\ UNCHANGED <<tts_text, tts_closed, ffmpeg_installed, chunksIn,
                   buffer_size, mp3_chunks, sessionVars, frameVars, mIn, mOut, chatVars, srvVars>>

\* synthesizer.py:224-260: the stream has ended; what is left in the buffer
\* is decoded and forwarded.
TtsFlush ==
    /\ tpc = "stream"
    /\ IF mp3_chunks # <<>>
       THEN DecodeAndForward(buffer_size, mp3_chunks, "send_end")
       ELSE /\ tpc' = "send_end"
            /\ UNCHANGED <<ttsSent, total_size, ttsOutcome, decoded>>
    /\ UNCHANGED <<tts_text, tts_closed, ffmpeg_installed, chunksIn,
                   buffer_size, mp3_chunks, sessionVars, frameVars, mIn, mOut, chatVars, srvVars>>

\* Variant: after the 'error' event the call goes on to audio_end.
TtsInnerError_GoesOn ==
    /\ tpc = "inner_error"
    /\ ttsSent' = IF tts_closed THEN ttsSent
                  ELSE Append(ttsSent, TtsEvent("error", 0))
    /\ tpc' = "send_end"
    /\ UNCHANGED <<ttsOutcome, tts_text, tts_closed, ffmpeg_installed, chunksIn,
                   decoded, buffer_size, mp3_chunks, total_size, sessionVars, frameVars, mIn, mOut,
                   chatVars, srvVars>>

\* synthesizer.py:262-286: FileNotFoundError or another exception inside the
\* decoding loop: an 'error' event, and the call returns without audio_end.
TtsInnerError ==
    /\ tpc = "inner_error"
    /\ ttsSent' = IF tts_closed THEN ttsSent
                  ELSE Append(ttsSent, TtsEvent("error", 0))
    /\ TtsReturn("error")
    /\ UNCHANGED <<tts_text, tts_closed, ffmpeg_installed, chunksIn, decoded,
                   buffer_size, mp3_chunks, total_size, sessionVars, frameVars, mIn, mOut, chatVars, srvVars>>

\* synthesizer.py:288-304: audio_end with total_size.
TtsSendEnd ==
    /\ tpc = "send_end"
    /\ IF tts_closed
       THEN TtsReturn("closed") /\ UNCHANGED ttsSent
       ELSE /\ ttsSent' = Append(ttsSent, TtsEvent("audio_end", total_size))
            /\ TtsReturn("ended")
    /\ UNCHANGED <<tts_text, tts_closed, ffmpeg_installed, chunksIn, decoded,
                   buffer_size, mp3_chunks, total_size, sessionVars, frameVars, mIn, mOut, chatVars, srvVars>>

\* synthesizer.py:309-324: an exception that names NoAudioReceived: audio_end
\* with total_size 0.
TtsNoAudioEnd ==
    /\ tpc = "no_audio_end"
    /\ IF tts_closed
       THEN TtsReturn("closed") /\ UNCHANGED ttsSent
       ELSE /\ ttsSent' = Append(ttsSent, TtsEvent("audio_end", 0))
            /\ TtsReturn("no_audio")
    /\ UNCHANGED <<tts_text, tts_closed, ffmpeg_installed, chunksIn, decoded,
                   buffer_size, mp3_chunks, total_size, sessionVars, frameVars, mIn, mOut, chatVars, srvVars>>

\* synthesizer.py:326-335: any other exception: an 'error' event.
TtsOuterError ==
    /\ tpc = "outer_error"
    /\ ttsSent' = IF tts_closed THEN ttsSent
                  ELSE Append(ttsSent, TtsEvent("error", 0))
    /\ TtsReturn("error")
    /\ UNCHANGED <<tts_text, tts_closed, ffmpeg_installed, chunksIn, decoded,
                   buffer_size, mp3_chunks, total_size, sessionVars, frameVars, mIn, mOut, chatVars, srvVars>>

\* The client closes the websocket while the call waits.
TtsClose ==
    /\ tpc # "done"
    /\ ~tts_closed
    /\ tts_closed' = TRUE
    /\ UNCHANGED <<tts_text, ffmpeg_installed, tpc, chunksIn, buffer_size, mp3_chunks,
                   total_size, ttsSent, ttsOutcome, decoded, sessionVars, frameVars, mIn,
                   mOut, chatVars, srvVars>>

InitTts ==
    /\ SessionInit
    /\ use_bilingual = TRUE
    /\ mIn = <<EmptyDict, EmptyDict>>
    /\ mOut = MergePending
    /\ ChatInit(None)
    /\ \E txt \in TtsTexts, ffmpeg \in BOOLEAN : TtsInit(txt, ffmpeg)
    /\ SrvInit
    /\ FrameInit

NextTts ==
    \/ TtsBegin
    \/ TtsEmptyEnd
    \/ TtsSendStart
    \/ TtsChunk
    \/ TtsFlush
    \/ TtsInnerError
    \/ TtsSendEnd
    \/ TtsNoAudioEnd
    \/ TtsOuterError
    \/ TtsClose

SpecTts == InitTts /\ [][NextTts]_vars

----------------------------------------------------------------------------
\* python/tts/text_processor.py

\* Characters of the class SPECIAL_CHARS_TO_REMOVE that the model uses.
SPECIAL_CHARS_TO_REMOVE == {"*", "#", "."}

\* Characters EMOJI_PATTERN matches: "grin" is U+1F600.
EMOJI_PATTERN == {"grin"}

\* re.sub of a character class by ''.
RemoveChars(class, s) == SelectSeq(s, LAMBDA c : c \notin class)

\* re.sub(r'\s+', ' ', s)
RECURSIVE CollapseSpaces(_)
CollapseSpaces(s) ==
    IF s = <<>> THEN <<>>
    ELSE IF Head(s) \in Whitespace
    THEN <<" ">> \o CollapseSpaces(LStrip(s))
    ELSE <<Head(s)>> \o CollapseSpaces(Tail(s))

clean_text(s) == Strip(CollapseSpaces(RemoveChars(SPECIAL_CHARS_TO_REMOVE, s)))

remove_emojis(s) == Strip(CollapseSpaces(RemoveChars(EMOJI_PATTERN, s)))

\* The cleaned text of process_text's result (the emotion is left out).
process_text(s) == clean_text(remove_emojis(s))

----------------------------------------------------------------------------
\* python/tts/server.py: one connection served by handle_tts_request, with
\* Edge TTS as the engine (get_engine() == edge_tts).  The events of the
\* message being handled are in ttsSent, whoever sent them; served has one
\* entry per message handled.

\* Messages one connection receives.
MaxReqs == 2

RawTexts ==
    { <<>>, <<" ">>, <<"*">>, <<"grin">>, <<"grin", " ", "#">>,
      <<"n">>, <<"n", " ", "*", " ", "i">> }

\* The messages: their 'type' and 'text'.  "<binary>" is a binary frame,
\* "<bad json>" a text frame that is not JSON.
SrvMessages ==
    { [type |-> "synthesize", text |-> t] : t \in RawTexts }
    \cup { [type |-> t, text |-> <<>>] :
             t \in {"list_voices", "<binary>", "<bad json>"} }

\* The locals of text_to_speech_edge_stream(txt, ..) at its start, or after
\* its return (at = "done").
SrvCallState(at, txt) ==
    /\ tpc' = at
    /\ tts_text' = txt
    /\ chunksIn' = <<>>
    /\ buffer_size' = 0
    /\ mp3_chunks' = <<>>
    /\ total_size' = 0
    /\ ttsOutcome' = "running"
    /\ decoded' = <<>>

\* The handling of a message is over: back to `async for message`.
SrvNext(how) == spc' = "recv" /\ served' = Append(served, how)

\* Variant: a text that is empty after cleanup is handed to the synthesizer.
SrvRecv_NoEmptyCheck ==
    /\ spc = "recv"
    /\ ~tts_closed
    /\ nReqs < MaxReqs
    /\ \E msg \in SrvMessages :
         /\ nReqs' = nReqs + 1
         /\ reqMsg' = msg
         /\ IF msg.type = "<binary>"
            THEN /\ ttsSent' = <<>>
                 /\ SrvNext("ignored")
                 /\ SrvCallState("done", <<>>)
            ELSE IF msg.type = "<bad json>"
            THEN /\ ttsSent' = <<TtsEvent("error", 0)>>
                 /\ SrvNext("bad_json")
                 /\ SrvCallState("done", <<>>)
            ELSE IF msg.type = "list_voices"
            THEN /\ ttsSent' = <<TtsEvent("voices_list", 0)>>
                 /\ SrvNext("voices")
                 /\ SrvCallState("done", <<>>)
            ELSE IF ~Truthy(msg.text)
            THEN /\ ttsSent' = <<TtsEvent("error", 0)>>
                 /\ SrvNext("no_text")
                 /\ SrvCallState("done", <<>>)
            ELSE /\ ttsSent' = <<>>
                 /\ spc' = "synth"
                 /\ SrvCallState("begin", process_text(msg.text))
                 /\ UNCHANGED served
    /\ UNCHANGED <<tts_closed, ffmpeg_installed, sessionVars, frameVars, mIn, mOut,
                   chatVars>>

\* Variant: the next message is taken while a synthesis is under way.
SrvRecv_WhileSynth ==
    /\ spc \in {"recv", "synth"}
    /\ ~tts_closed
    /\ nReqs < MaxReqs
    /\ \E msg \in SrvMessages :
         /\ nReqs' = nReqs + 1
         /\ reqMsg' = msg
         /\ IF msg.type = "<binary>"
            THEN /\ ttsSent' = <<>>
                 /\ SrvNext("ignored")
                 /\ SrvCallState("done", <<>>)
            ELSE IF msg.type = "<bad json>"
            THEN /\ ttsSent' = <<TtsEvent("error", 0)>>
                 /\ SrvNext("bad_json")
                 /\ SrvCallState("done", <<>>)
            ELSE IF msg.type = "list_voices"
            THEN /\ ttsSent' = <<TtsEvent("voices_list", 0)>>
                 /\ SrvNext("voices")
                 /\ SrvCallState("done", <<>>)
            ELSE IF ~Truthy(msg.text)
            THEN /\ ttsSent' = <<TtsEvent("error", 0)>>
                 /\ SrvNext("no_text")
                 /\ SrvCallState("done", <<>>)
            ELSE LET cleaned_text == process_text(msg.text) IN
                 IF ~Truthy(cleaned_text) \/ ~Truthy(Strip(cleaned_text))
                 THEN /\ ttsSent' = <<TtsEvent("audio_start", 0)>>
                      /\ spc' = "empty_end"
                      /\ SrvCallState("done", <<>>)
                      /\ UNCHANGED served
                 ELSE /\ ttsSent' = <<>>
                      /\ spc' = "synth"
                      /\ SrvCallState("begin", cleaned_text)
                      /\ UNCHANGED served
    /\ UNCHANGED <<tts_closed, ffmpeg_installed, sessionVars, frameVars, mIn, mOut,
                   chatVars>>

\* server.py:29-79 and 147-210: the next message, up to the first await
\* that is not a send of its own: a binary frame is passed over (31); a text
\* frame that is not JSON gets an 'error' event (199-204); list_voices gets
\* the list (147-186); synthesize without text gets an 'error' event (44-50),
\* with a text that is empty after process_text gets audio_start (58-70),
\* and else it calls text_to_speech_edge_stream (89-97).
SrvRecv ==
    /\ spc = "recv"
    /\ ~tts_closed
    /\ nReqs < MaxReqs
    /\ \E msg \in SrvMessages :
         /\ nReqs' = nReqs + 1
         /\ reqMsg' = msg
         /\ IF msg.type = "<binary>"
            THEN /\ ttsSent' = <<>>
                 /\ SrvNext("ignored")
                 /\ SrvCallState("done", <<>>)
            ELSE IF msg.type = "<bad json>"
            THEN /\ ttsSent' = <<TtsEvent("error", 0)>>
                 /\ SrvNext("bad_json")
                 /\ SrvCallState("done", <<>>)
            ELSE IF msg.type = "list_voices"
            THEN /\ ttsSent' = <<TtsEvent("voices_list", 0)>>
                 /\ SrvNext("voices")
                 /\ SrvCallState("done", <<>>)
            ELSE IF ~Truthy(msg.text)
            THEN /\ ttsSent' = <<TtsEvent("error", 0)>>
                 /\ SrvNext("no_text")
                 /\ SrvCallState("done", <<>>)
            ELSE LET cleaned_text == process_text(msg.text) IN
                 IF ~Truthy(cleaned_text) \/ ~Truthy(Strip(cleaned_text))
                 THEN /\ ttsSent' = <<TtsEvent("audio_start", 0)>>
                      /\ spc' = "empty_end"
                      /\ SrvCallState("done", <<>>)
                      /\ UNCHANGED served
                 ELSE /\ ttsSent' = <<>>
                      /\ spc' = "synth"
                      /\ SrvCallState("begin", cleaned_text)
                      /\ UNCHANGED served
    /\ UNCHANGED <<tts_closed, ffmpeg_installed, sessionVars, frameVars, mIn, mOut,
                   chatVars>>

\* server.py:71-79: audio_end with total_size 0; a closed websocket is
\* logged.
SrvEmptyEnd ==
    /\ spc = "empty_end"
    /\ IF tts_closed
       THEN SrvNext("closed") /\ UNCHANGED ttsSent
       ELSE /\ ttsSent' = Append(ttsSent, TtsEvent("audio_end", 0))
            /\ SrvNext("empty")
    /\ UNCHANGED <<nReqs, reqMsg, ttsVarsButSent, sessionVars, frameVars, mIn, mOut,
                   chatVars>>

\* server.py:97: text_to_speech_edge_stream has returned (it lets no
\* exception out); its locals are gone.
SrvReturn ==
    /\ spc = "synth"
    /\ tpc = "done"
    /\ SrvNext(ttsOutcome)
    /\ SrvCallState("done", <<>>)
    /\ ttsSent' = <<>>
    /\ UNCHANGED <<nReqs, reqMsg, tts_closed, ffmpeg_installed, sessionVars, frameVars,
                   mIn, mOut, chatVars>>

\* The client closes the websocket while handle_tts_request waits for a
\* message or in a send.
SrvClose ==
    /\ spc \in {"recv", "empty_end"}
    /\ ~tts_closed
    /\ tts_closed' = TRUE
    /\ UNCHANGED <<srvVars, ttsVarsButClosed, sessionVars, frameVars, mIn, mOut, chatVars>>

\* server.py:29 and 212-213: the websocket is closed, the loop ends.
SrvExit ==
    /\ spc = "recv"
    /\ tts_closed
    /\ spc' = "exit"
    /\ UNCHANGED <<nReqs, reqMsg, served, ttsVars, sessionVars, frameVars, mIn, mOut,
                   chatVars>>

InitTtsServer ==
    /\ SessionInit
    /\ use_bilingual = TRUE
    /\ mIn = <<EmptyDict, EmptyDict>>
    /\ mOut = MergePending
    /\ ChatInit(None)
    /\ SrvInit
    /\ FrameInit
    /\ ffmpeg_installed \in BOOLEAN
    /\ tts_closed = FALSE
    /\ tts_text = <<>>
    /\ tpc = "done"
    /\ chunksIn = <<>>
    /\ buffer_size = 0
    /\ mp3_chunks = <<>>
    /\ total_size = 0
    /\ ttsSent = <<>>
    /\ ttsOutcome = "running"
    /\ decoded = <<>>

NextTtsServer ==
    \/ SrvRecv
    \/ SrvEmptyEnd
    \/ SrvReturn
    \/ SrvClose
    \/ SrvExit
    \/ TtsBegin
    \/ TtsSendStart
    \/ TtsChunk
    \/ TtsFlush
    \/ TtsInnerError
    \/ TtsSendEnd
    \/ TtsNoAudioEnd
    \/ TtsOuterError
    \/ TtsClose

SpecTtsServer == InitTtsServer /\ [][NextTtsServer]_vars

----------------------------------------------------------------------------
\* Properties of text_to_speech_edge_stream (under SpecTts).

\* The binary frames among the first n things sent, added up.
RECURSIVE BinaryBytes(_)
BinaryBytes(n) ==
    IF n = 0 THEN 0
    ELSE BinaryBytes(n - 1)
         + (IF ttsSent[n].type = "binary" THEN ttsSent[n].n ELSE 0)

\* C20: a request that has ended without an error and with the websocket
\* open (the text empty or not) has sent audio_start first and audio_end
\* last, each once, only binary frames between them, and the total_size of
\* audio_end is the sum of the lengths of those frames.
C20_StartFramesEnd ==
    (tpc = "done" /\ ~tts_closed /\ ttsOutcome \in {"ended", "empty", "no_audio"}) =>
        /\ Len(ttsSent) >= 2
        /\ ttsSent[1].type = "audio_start"
        /\ ttsSent[Len(ttsSent)].type = "audio_end"
        /\ \A i \in 2..(Len(ttsSent) - 1) : ttsSent[i].type = "binary"
        /\ ttsSent[Len(ttsSent)].n = BinaryBytes(Len(ttsSent))
        /\ ttsOutcome = "empty" => ttsSent[Len(ttsSent)].n = 0

\* Two binary frames, one from inside the stream and one from the flush.
C20_Witness ==
    /\ tpc = "done" /\ ~tts_closed /\ ttsOutcome = "ended"
    /\ Len(ttsSent) = 4
    /\ buffer_size > 0
    /\ ttsSent[4].n = ttsSent[2].n + ttsSent[3].n
    /\ ttsSent[4].n > 0

\* A step of the loop at synthesizer.py:172 that pulls an item of the stream.
PullStep == Len(chunksIn') = Len(chunksIn) + 1

PulledItem == chunksIn'[Len(chunksIn')]

\* ffmpeg has just been run on a block of n bytes, and what it wrote (if
\* anything) has gone out unless the websocket is closed.
DecodedAndForwarded(n) ==
    /\ Len(decoded') = Len(decoded) + 1
    /\ decoded'[Len(decoded')].block = n
    /\ LET raw == decoded'[Len(decoded')].raw
       IN  IF raw > 0 /\ ~tts_closed
           THEN ttsSent' = Append(ttsSent, TtsEvent("binary", raw))
           ELSE ttsSent' = ttsSent

\* The step that leaves the loop at the end of the stream.
EndOfStreamStep == tpc = "stream" /\ tpc' # "stream" /\ ~PullStep

C21_BelowThresholdWhenPulling ==
    /\ tpc = "stream" => buffer_size < min_buffer_size
    /\ (tpc = "send_end" /\ buffer_size > 0) =>
           decoded # <<>> /\ decoded[Len(decoded)].block = buffer_size

C21_DrainStep ==
    /\ (PullStep /\ PulledItem.type = "audio" /\ ffmpeg_installed
          /\ buffer_size + PulledItem.data >= min_buffer_size) =>
           DecodedAndForwarded(buffer_size + PulledItem.data) /\ buffer_size' = 0
    /\ (PullStep /\ (PulledItem.type # "audio"
                       \/ buffer_size + PulledItem.data < min_buffer_size)) =>
           decoded' = decoded /\ ttsSent' = ttsSent
    /\ (EndOfStreamStep /\ ffmpeg_installed /\ buffer_size > 0) =>
           DecodedAndForwarded(buffer_size)
    /\ (EndOfStreamStep /\ buffer_size = 0) =>
           decoded' = decoded /\ ttsSent' = ttsSent /\ tpc' = "send_end"

\* C21: whenever an item of the stream is pulled the buffer holds less than
\* min_buffer_size bytes; a chunk that brings it to min_buffer_size or more
\* has the whole buffer decoded and forwarded in the same step, which leaves
\* the buffer empty; at the end of the stream what is left in the buffer is
\* decoded and forwarded before audio_end is sent.
C21_DrainAtThreshold ==
    []C21_BelowThresholdWhenPulling /\ [][C21_DrainStep]_vars

\* Two chunks of 4096 bytes were drained together, a third was flushed.
C21_Witness ==
    /\ tpc = "done" /\ ttsOutcome = "ended"
    /\ Len(decoded) = 2
    /\ decoded[1].block = min_buffer_size
    /\ decoded[2].block = 4096
    /\ Len(chunksIn) = 3
    /\ chunksIn[1].data = 4096


\* A step in which a block has to be decoded.
MustDecodeStep ==
    \/ PullStep /\ PulledItem.type = "audio"
         /\ buffer_size + PulledItem.data >= min_buffer_size
    \/ EndOfStreamStep /\ buffer_size > 0

EventTypes == { ttsSent[i].type : i \in 1..Len(ttsSent) }

C23_Aborted ==
    /\ tpc = "inner_error" => "audio_end" \notin EventTypes
    /\ (ttsOutcome = "error" /\ ~tts_closed) =>
           /\ tpc = "done"
           /\ ttsSent[Len(ttsSent)].type = "error"
           /\ "audio_end" \notin EventTypes
    /\ ~ffmpeg_installed => "binary" \notin EventTypes

C23_UnavailableStep ==
    /\ (MustDecodeStep /\ ~ffmpeg_installed) =>
           tpc' = "inner_error" /\ ttsSent' = ttsSent /\ decoded' = decoded
    /\ (tpc = "inner_error" /\ tts_closed' = tts_closed) =>
           /\ tpc' = "done" /\ ttsOutcome' = "error"
           /\ ttsSent' = IF tts_closed THEN ttsSent
                         ELSE Append(ttsSent, TtsEvent("error", 0))
    /\ tpc = "done" => ttsSent' = ttsSent

\* C23: without ffmpeg, the step that has to decode a block sends nothing
\* and goes to the error handler, which sends an 'error' event (on an open
\* websocket) and returns; the 'error' event is the last thing the request
\* sends, there is no audio_end and no binary frame.
C23_NoTranscoderAborts == []C23_Aborted /\ [][C23_UnavailableStep]_vars

\* The first chunk fills the buffer and ffmpeg is not there.
C23_Witness ==
    /\ ~ffmpeg_installed /\ ~tts_closed
    /\ tpc = "done" /\ ttsOutcome = "error"
    /\ Len(chunksIn) = 1 /\ chunksIn[1] = [type |-> "audio", data |-> 8192]
    /\ ttsSent = <<TtsEvent("audio_start", 0), TtsEvent("error", 0)>>

\* The MP3 bytes among the first n items of the stream, added up.
RECURSIVE AudioBytes(_)
AudioBytes(n) ==
    IF n = 0 THEN 0
    ELSE AudioBytes(n - 1)
         + (IF chunksIn[n].type = "audio" THEN chunksIn[n].data ELSE 0)

\* What ffmpeg writes for a block of n bytes it can decode.
WholeDecode(n) == CHOOSE raw \in DecodedSizes(n) : raw > 0 \/ n = 0

\* ffmpeg has decoded every block it was run on.
AllDecoded ==
    \A i \in 1..Len(decoded) : decoded[i].raw = WholeDecode(decoded[i].block)

C24_TotalIsWholeStream ==
    (tpc = "done" /\ ttsOutcome = "ended" /\ ~tts_closed /\ AllDecoded) =>
        /\ total_size = WholeDecode(AudioBytes(Len(chunksIn)))
        /\ ttsSent[Len(ttsSent)] = TtsEvent("audio_end", total_size)
        /\ BinaryBytes(Len(ttsSent)) = total_size

C24_ExactThresholdStep ==
    (PullStep /\ PulledItem.type = "audio" /\ ffmpeg_installed
       /\ buffer_size + PulledItem.data = min_buffer_size) =>
        /\ DecodedAndForwarded(min_buffer_size)
        /\ tpc' \in {"stream", "done"}
        /\ tpc' = "done" => tts_closed

\* C24: a chunk that brings the buffer to exactly min_buffer_size bytes is
\* decoded and forwarded in that step, before the stream has ended; and when
\* ffmpeg has decoded every block, the total_size reported in audio_end, which
\* is the sum of the frames sent, is what decoding all the MP3 bytes of the
\* stream as one block gives.
C24_ExactThresholdAndTotal ==
    []C24_TotalIsWholeStream /\ [][C24_ExactThresholdStep]_vars

\* 4096 + 4096 bytes reach the threshold exactly, 4096 more are flushed.
C24_Witness ==
    /\ tpc = "done" /\ ttsOutcome = "ended" /\ ~tts_closed /\ AllDecoded
    /\ AudioBytes(Len(chunksIn)) = 12288
    /\ Len(ttsSent) = 4
    /\ ttsSent[2] = TtsEvent("binary", WholeDecode(min_buffer_size))
    /\ total_size = WholeDecode(12288)

\* The places in chunksIn of the audio chunks that hold data, in order.
AudioChunkPlaces ==
    LET idx == [i \in 1..Len(chunksIn) |-> i] IN
    SelectSeq(idx, LAMBDA i : chunksIn[i].type = "audio" /\ chunksIn[i].data > 0)

\* The chunks of the first n blocks given to ffmpeg, joined in order.
RECURSIVE JoinedBlocks(_)
JoinedBlocks(n) ==
    IF n = 0 THEN <<>> ELSE JoinedBlocks(n - 1) \o decoded[n].data

\* The bytes of the chunks at these places.
RECURSIVE SumData(_)
SumData(places) ==
    IF places = <<>> THEN 0
    ELSE chunksIn[Head(places)].data + SumData(Tail(places))

\* C37: in a request that ends with audio_end after the stream, the blocks
\* given to ffmpeg, joined in order, are the audio chunks with data in the
\* order received, each of them in one block and once; a block holds at
\* least one chunk and is as long as its chunks together; every block but
\* the last has at least min_buffer_size bytes, and a shorter last block
\* is the one flushed at the end of the stream.  While the stream is read
\* the blocks so far and the chunks held make up the chunks received.
C37_BlocksPartitionStream ==
    /\ tpc = "stream" =>
          /\ JoinedBlocks(Len(decoded)) \o mp3_chunks = AudioChunkPlaces
          /\ buffer_size = SumData(mp3_chunks)
    /\ ttsOutcome = "ended" =>
          /\ JoinedBlocks(Len(decoded)) = AudioChunkPlaces
          /\ \A i \in 1..Len(decoded) :
                /\ decoded[i].data # <<>>
                /\ decoded[i].block = SumData(decoded[i].data)
                /\ i < Len(decoded) => decoded[i].block >= min_buffer_size
                /\ decoded[i].block < min_buffer_size =>
                      (i = Len(decoded) /\ decoded[i].data = mp3_chunks)

\* Chunks of 4096, 8192 and 4096 bytes: a block of the first two, drained
\* at the second, and a flushed block of the third.
C37_Witness ==
    /\ tpc = "done" /\ ttsOutcome = "ended"
    /\ Len(decoded) = 2
    /\ decoded[1].data = <<1, 2>> /\ decoded[1].block = 12288
    /\ decoded[2].data = <<3>> /\ decoded[2].block = 4096

----------------------------------------------------------------------------
\* Properties of handle_tts_request (under SpecTtsServer).

\* The handling of a synthesize message has ended with the websocket open.
SynthesizeHandled ==
    /\ spc = "recv" /\ ~tts_closed
    /\ reqMsg.type = "synthesize"
    /\ Len(served) = nReqs

EmptyAfterCleanup(t) == ~Truthy(Strip(process_text(t)))

TwoEventsNoAudio ==
    ttsSent = <<TtsEvent("audio_start", 0), TtsEvent("audio_end", 0)>>

\* C22 as stated: every synthesize request whose text is empty after cleanup,
\* the empty text included, has audio_start and audio_end with total_size 0
\* as its two events.
C22_EmptyTextTwoEvents ==
    (SynthesizeHandled /\ EmptyAfterCleanup(reqMsg.text)) => TwoEventsNoAudio

\* C22, amended: a synthesize request whose text is not empty but is empty
\* after cleanup has exactly two events, audio_start and then audio_end with
\* total_size 0, and no binary frame; a request whose text is empty has one
\* 'error' event; and text_to_speech_edge_stream is never called for either.
C22_CleanedEmptyTwoEvents ==
    /\ (SynthesizeHandled /\ EmptyAfterCleanup(reqMsg.text)) =>
           IF Truthy(reqMsg.text)
           THEN TwoEventsNoAudio /\ served[nReqs] = "empty"
           ELSE ttsSent = <<TtsEvent("error", 0)>> /\ served[nReqs] = "no_text"
    /\ spc = "synth" =>
           /\ ~EmptyAfterCleanup(reqMsg.text)
           /\ tts_text = process_text(reqMsg.text)
           /\ Truthy(tts_text)

\* A text of an emoji, a space and a special character, after a request
\* that was synthesized.
C22_Witness ==
    /\ SynthesizeHandled
    /\ reqMsg.text = <<"grin", " ", "#">>
    /\ TwoEventsNoAudio
    /\ served = <<"ended", "empty">>

\* text_to_speech_edge_stream has returned to handle_tts_request, which
\* has not gone on yet.
CallReturned == spc = "synth" /\ tpc = "done"

\* ffmpeg wrote nothing for one of the blocks of the request.
DecodeFailed == \E i \in 1..Len(decoded) : decoded[i].raw = 0

\* C27: a request in which ffmpeg failed to decode a block has an 'error'
\* event as the last thing sent and no audio_end (it is aborted), on an open
\* websocket.
C27_DecodeFailureGivesError ==
    (CallReturned /\ ~tts_closed /\ DecodeFailed) =>
        /\ ttsSent # <<>>
        /\ ttsSent[Len(ttsSent)].type = "error"
        /\ "audio_end" \notin EventTypes

----------------------------------------------------------------------------
\* More properties of handle_audio (under Spec).

\* The step takes a text frame that is not JSON.
BadJsonStep == nMsgs' # nMsgs /\ lastMsg' = "bad_json"

C26_LoopGoesOn ==
    (lastMsg = "bad_json" /\ LoopFree /\ nMsgs < MaxMsgs /\ conn = "open") =>
        /\ pc = "recv"
        /\ ENABLED RecvAudio
        /\ ENABLED RecvStart
        /\ ENABLED RecvStop
        /\ ENABLED RecvOther

C26_Dropped ==
    BadJsonStep =>
        /\ current_cn_recognizer' = current_cn_recognizer
        /\ current_en_recognizer' = current_en_recognizer
        /\ current_sentence' = current_sentence
        /\ last_update_time' = last_update_time
        /\ silence_check_task' = silence_check_task
        /\ taskState' = taskState
        /\ evSent' = <<>>
        /\ emitted' = emitted
        /\ dispatched' = dispatched
        /\ pc' = "recv"

\* C26: the step that takes a text frame that is not JSON leaves the
\* recognizers, the buffer, its time stamp and the silence task as they are
\* and sends nothing; afterwards the loop takes the next frame, of any kind.
C26_BadJsonDropped == []C26_LoopGoesOn /\ [][C26_Dropped]_vars

\* An Active session with text in its buffer has just dropped such a frame.
C26_Witness ==
    /\ lastMsg = "bad_json" /\ pc = "recv" /\ nMsgs = 3
    /\ current_cn_recognizer = "fed"
    /\ current_sentence # <<>>
    /\ silence_check_task # 0
    /\ taskState[silence_check_task] # "done"
    /\ evSent = <<>>

\* No task is taken out of dispatched: what was spawned stays spawned.
DispatchesKept ==
    /\ Len(dispatched') >= Len(dispatched)
    /\ SubSeq(dispatched', 1, Len(dispatched)) = dispatched

\* handle_audio has returned.
HandlerExited == pc = "done"

C28_ClosedSendsFailSilently ==
    /\ [](~chatRaised)
    /\ [](\A i \in 1..Len(tried) : ~tried[i].ok => i = Len(tried) /\ ChatDone)
    /\ [][(websocket_closed /\ tried' # tried) =>
            ~tried'[Len(tried')].ok]_vars

\* A step that hands a sentence to call_deepseek_api_stream.
DispatchStep == Len(dispatched') = Len(dispatched) + 1

NewDispatch == dispatched'[Len(dispatched')]

\* The dispatch of the stop path (server.py:200-202).
StopDispatchStep == pc = "stop_after_send" /\ pc' = "stop_cancel"

\* C29 as stated: a text without terminal punctuation is dispatched by a
\* step of check_silence_timeout only.
C29_OnlySilenceUnpunctuated ==
    [][(DispatchStep /\ ~HasTerminal(NewDispatch)) => SilenceEmitStep]_vars

\* C29, amended: a text without terminal punctuation is dispatched only by a
\* step of check_silence_timeout or by the stop path; what is dispatched
\* after add_text on a decoder result has terminal punctuation; the teardown
\* dispatches nothing.
C29_SilenceOrStopUnpunctuated ==
    [][/\ (DispatchStep /\ ~HasTerminal(NewDispatch)) =>
              SilenceEmitStep \/ StopDispatchStep
       /\ (DispatchStep /\ pc = "after_send" /\ pc' = "recv") =>
              HasTerminal(NewDispatch)
       /\ (pc \in {"finally_await", "done"} /\ pc' = "done") => ~DispatchStep]_vars

\* The stop path has dispatched 'a a', which has no terminal punctuation.
C29_Witness ==
    /\ lastMsg = "stop"
    /\ emitted # <<>>
    /\ emitted[Len(emitted)].by = "stop"
    /\ ~HasTerminal(emitted[Len(emitted)].text)
    /\ dispatched # <<>>
    /\ dispatched[Len(dispatched)] = emitted[Len(emitted)].text

\* The last step of the handling of a 'stop' (server.py:204-215).
StopTeardownStep == pc \in {"stop_cancel", "stop_await"} /\ pc' = "recv"

\* Nothing is left of a session: no decoder, no buffered text, no task.
SessionIdle ==
    /\ current_cn_recognizer = "None"
    /\ current_en_recognizer = "None"
    /\ current_sentence = <<>>
    /\ bufFrags = {}
    /\ silence_check_task = 0

\* A session has just begun: new decoders, an empty accumulator whose clock
\* starts now, and a task made by this step that waits in its sleep.
SessionFresh ==
    /\ current_cn_recognizer' = "fresh"
    /\ current_en_recognizer' = (IF use_bilingual THEN "fresh" ELSE "None")
    /\ current_sentence' = <<>>
    /\ bufFrags' = {}
    /\ last_update_time' = now
    /\ Len(taskState') = Len(taskState) + 1
    /\ silence_check_task' = Len(taskState')
    /\ taskState'[silence_check_task'] = "sleeping"
    /\ conn = "open" => evSent' = <<[type |-> "ready", text |-> None]>>

\* C32: the handling of a 'stop' ends with nothing left of the session (no
\* decoder, no buffered text, no silence task); a 'start' received after it
\* gives new decoders, an empty accumulator, a silence task created by that
\* step and waiting in its sleep, and the 'ready' event; and no silence task
\* of an earlier cycle is alive beside the current one.
C32_StopThenStartIsFresh ==
    /\ [](\A k \in 1..Len(taskState) :
              k # silence_check_task => taskState[k] = "done")
    /\ [][StopTeardownStep => SessionIdle']_vars
    /\ [][(StartStep /\ silence_check_task = 0) => SessionFresh]_vars

\* The second 'start' on the connection, after a 'start' and a 'stop': the
\* first task has ended and a second one waits.
C32_Witness ==
    /\ nMsgs = 3 /\ lastMsg = "start" /\ pc = "recv"
    /\ conn = "open"
    /\ Len(taskState) = 2
    /\ taskState[1] = "done"
    /\ silence_check_task = 2 /\ taskState[2] = "sleeping"
    /\ current_sentence = <<>>
    /\ current_cn_recognizer = "fresh"
    /\ evSent = <<[type |-> "ready", text |-> None]>>

\* The silence tasks that have not ended.
LiveSilenceTasks == {k \in 1..Len(taskState) : taskState[k] # "done"}

\* C33: at every moment at most one silence task has not ended, and it is
\* the one silence_check_task names; a 'start' received while
\* silence_check_task is set creates no task and leaves the handle alone; so
\* a step of check_silence_timeout is always a step of that one task.
C33_AtMostOneSilenceTask ==
    /\ [](/\ Cardinality(LiveSilenceTasks) <= 1
          /\ LiveSilenceTasks \subseteq {silence_check_task})
    /\ [][(StartStep /\ silence_check_task # 0) =>
             /\ taskState' = taskState
             /\ silence_check_task' = silence_check_task]_vars
    /\ [][SilenceEmitStep =>
             /\ silence_check_task # 0
             /\ taskState[silence_check_task] = "in_check"
             /\ Len(emitted') = Len(emitted) + 1]_vars

\* 'start', an audio frame whose text the silence task has reported, and a
\* second 'start' without a 'stop': still the one task.
C33_Witness ==
    /\ nMsgs = 3 /\ lastMsg = "start" /\ pc = "recv"
    /\ emitted # <<>> /\ emitted[1].by = "timeout"
    /\ Len(taskState) = 1
    /\ silence_check_task = 1
    /\ taskState[1] = "sleeping"

\* The utterances check_silence_timeout has returned, in order.
TimeoutUtterances ==
    LET us == SelectSeq(emitted, LAMBDA u : u.by = "timeout") IN
    [i \in 1..Len(us) |-> us[i].text]

\* handle_audio stands where it cancels the silence task or waits for the
\* cancelled task to end.
AtCancellation == pc \in {"stop_cancel", "stop_await", "finally_await"}

\* C34: the step of the silence task that takes an utterance out of the
\* buffer is the step that creates the dispatch task for it, so every
\* utterance check_silence_timeout ever returned has been dispatched; a
\* cancellation takes effect only on a task that waits in its sleep; while
\* handle_audio cancels or awaits the task, the task is not between its
\* check and its dispatch; a task that is cancelled or has ended stays so,
\* and an utterance is taken out on the silence path only by a step of a
\* task that is in its check.
C34_CancelLosesNoUtterance ==
    /\ [](\A i \in 1..Len(TimeoutUtterances) :
             \E j \in 1..Len(dispatched) : dispatched[j] = TimeoutUtterances[i])
    /\ [](AtCancellation =>
             \A k \in 1..Len(taskState) : taskState[k] # "in_check")
    /\ [][SilenceEmitStep =>
             /\ DispatchStep
             /\ NewDispatch = emitted'[Len(emitted')].text]_vars
    /\ [][\A k \in 1..Len(taskState) :
             /\ (taskState[k] # "cancelling" /\ taskState'[k] = "cancelling")
                    => taskState[k] = "sleeping"
             /\ taskState[k] \in {"cancelling", "done"} =>
                    taskState'[k] \in {"cancelling", "done"}]_vars
    /\ [][SilenceEmitStep =>
             \E k \in 1..Len(taskState) :
                 taskState[k] = "in_check" /\ taskState'[k] = "sleeping"]_vars

\* The silence task reported a sentence, dispatched it and was then
\* cancelled by a 'stop'; it has ended.
C34_Witness ==
    /\ lastMsg = "stop" /\ pc = "recv"
    /\ Len(TimeoutUtterances) = 1
    /\ dispatched = TimeoutUtterances
    /\ taskState = <<"done">>
    /\ silence_check_task = 0

----------------------------------------------------------------------------
\* More properties of handle_tts_request (under SpecTtsServer).

\* A message is taken off the websocket.
SrvRecvStep == nReqs' = nReqs + 1

\* Something goes out on the websocket.
SrvSendStep == ttsSent' # ttsSent /\ ttsSent' # <<>>

\* The events of the message in hand are in order: audio_start comes first
\* if at all; audio_end, error and the list of voices come last.
OneRequestInOrder ==
    \A i \in 1..Len(ttsSent) :
        /\ ttsSent[i].type = "audio_start" => i = 1
        /\ ttsSent[i].type \in {"audio_end", "error", "voices_list"} =>
              i = Len(ttsSent)
        /\ ttsSent[i].type = "binary" => (i > 1 /\ ttsSent[1].type = "audio_start")

\* C38: on one connection the messages are handled one at a time, in the
\* order they arrive: a message is taken only when every message before it
\* has been handled to its end and no call of text_to_speech_edge_stream is
\* under way; whatever is sent is sent for the one message in hand, the
\* last one taken; and its events are in order, audio_start first and
\* audio_end or error last.
C38_OneRequestAtATime ==
    /\ [](/\ Len(served) \in {nReqs - 1, nReqs}
          /\ (Len(served) = nReqs) <=> (spc \in {"recv", "exit"})
          /\ spc \in {"recv", "exit"} => tpc = "done"
          /\ OneRequestInOrder)
    /\ [][SrvRecvStep =>
             /\ spc = "recv" /\ tpc = "done"
             /\ Len(served) = nReqs]_vars
    /\ [][(SrvSendStep /\ ~SrvRecvStep) =>
             /\ spc \in {"synth", "empty_end"}
             /\ nReqs' = nReqs
             /\ Len(served) = nReqs - 1]_vars
    /\ [][(Len(served') # Len(served)) =>
             /\ Len(served') = Len(served) + 1
             /\ Len(served') = nReqs']_vars

\* The first synthesize request has ended with audio_end and the second is
\* sending its audio.
C38_Witness ==
    /\ nReqs = 2
    /\ served = <<"ended">>
    /\ spc = "synth" /\ tpc = "stream"
    /\ Len(ttsSent) = 2
    /\ ttsSent[1].type = "audio_start"
    /\ ttsSent[2].type = "binary"

----------------------------------------------------------------------------
\* handle_audio under fair scheduling.  A coroutine that can run is run: the
\* stretch of handle_audio after an await that has completed, and the silence
\* task whose sleep is over.  Time does not stop while the loop is busy:
\* however often the tasks run, seconds go by (up to MaxTime).

\* A stretch of handle_audio that follows a completed await.
HandlerStep ==
    \/ AddTextStep
    \/ AfterSend
    \/ StopAddText
    \/ StopAfterSend
    \/ StopCancel
    \/ StopAwaited
    \/ FinallyAwaited

\* A stretch of a silence task.
SilenceTaskStep ==
    \E k \in DOMAIN taskState :
        SilenceWake(k) \/ SilenceCheck(k) \/ SilenceCancelled(k)

Fairness ==
    /\ WF_vars(HandlerStep)
    /\ WF_vars(SilenceTaskStep)
    /\ SF_vars(Tick)

SpecFair == Init /\ [][Next]_vars /\ Fairness

\* The session is Active: the connection is open and the silence task is
\* there and has not been cancelled.
Active ==
    /\ conn = "open"
    /\ silence_check_task # 0
    /\ taskState[silence_check_task] \in {"sleeping", "in_check"}

\* The buffer of an Active session holds text, and the clock of the model
\* reaches the time at which that text has been silent for
\* ASR_SILENCE_TIMEOUT.
Waiting ==
    /\ Active
    /\ current_sentence # <<>>
    /\ last_update_time + ASR_SILENCE_TIMEOUT <= MaxTime

\* This step of the silence task empties the buffer.
SilenceEmptiesStep ==
    /\ \E k \in 1..Len(taskState) :
          taskState[k] = "in_check" /\ taskState'[k] = "sleeping"
    /\ current_sentence # <<>>
    /\ current_sentence' = <<>>

\* C39: in an Active session a buffer that holds text and gets no more is
\* emptied in the end, unless a further frame arrives or the connection is
\* closed first; the step of the silence task that empties a buffer whose
\* trimmed length is at least ASR_MIN_SENTENCE_LENGTH starts the dispatch of
\* the trimmed text, and nothing else empties the buffer while no frame is
\* handled.
C39_BufferEventuallyEmptied ==
    /\ Waiting ~> ~Waiting
    /\ [][SilenceEmptiesStep =>
             /\ now - last_update_time >= ASR_SILENCE_TIMEOUT
             /\ LongEnough(Strip(current_sentence)) =>
                   (DispatchStep /\ NewDispatch = Strip(current_sentence))
             /\ ~LongEnough(Strip(current_sentence)) => ~DispatchStep]_vars
    /\ [][(current_sentence # <<>> /\ current_sentence' = <<>>
             /\ nMsgs' = nMsgs /\ pc = "recv" /\ pc' = "recv") =>
             SilenceEmptiesStep]_vars

\* The silence task has emptied the buffer of an Active session and
\* dispatched the text, two seconds after it was last touched.
C39_Witness ==
    /\ Active
    /\ pc = "recv"
    /\ current_sentence = <<>>
    /\ emitted # <<>> /\ emitted[Len(emitted)].by = "timeout"
    /\ dispatched # <<>>
    /\ dispatched[Len(dispatched)] = emitted[Len(emitted)].text
    /\ now - last_update_time >= ASR_SILENCE_TIMEOUT

----------------------------------------------------------------------------
\* A 'start' in a session that is under way (under Spec).

\* An utterance is taken out of the accumulator.
EmitStep == Len(emitted') > Len(emitted)

\* C40: a 'start' received while a silence task exists gives new decoders
\* and an empty accumulator, takes no utterance out, dispatches nothing and
\* sends nothing but 'ready'; as long as it is the last frame received and
\* handle_audio waits for the next, the decoders are the new ones and the
\* accumulator is empty, and nothing is emitted or dispatched; and the
\* text of an utterance always comes from the frames whose text the
\* accumulator holds and the frame in hand, never from a frame before the
\* last reset.
C40_RestartDropsBuffer ==
    /\ []((lastMsg = "start" /\ pc = "recv") =>
             /\ current_sentence = <<>>
             /\ bufFrags = {}
             /\ current_cn_recognizer = "fresh"
             /\ use_bilingual => current_en_recognizer = "fresh"
             /\ \A i \in 1..Len(evSent) : evSent[i].type = "ready")
    /\ [][(StartStep /\ silence_check_task # 0) =>
             /\ emitted' = emitted
             /\ dispatched' = dispatched
             /\ taskState' = taskState]_vars
    /\ [][(lastMsg = "start" /\ lastMsg' = "start") =>
             (~EmitStep /\ ~DispatchStep)]_vars
    /\ [][/\ bufFrags' \subseteq bufFrags \cup {nMsgs'}
          /\ EmitStep => emitted'[Len(emitted')].frags
                             \subseteq bufFrags \cup {nMsgs'}]_vars

\* A 'start' as the third frame has reset a buffer that held text, in a
\* session with its one silence task: the text is gone, nothing was emitted
\* or dispatched.
C40_Witness ==
    /\ nMsgs = 3 /\ lastMsg = "start" /\ pc = "recv"
    /\ Len(taskState) = 1 /\ silence_check_task = 1
    /\ smLast.op = "reset" /\ smLast.pre # <<>>
    /\ current_sentence = <<>>
    /\ current_cn_recognizer = "fresh"
    /\ emitted = <<>>
    /\ dispatched = <<>>

====
